---- MODULE Spec2Model ----
(***************************************************************************)
(* A model of the 3D snake game: the exclusion generator ExclusiveRng, the  *)
(* Snake, the GameState with its score submission, and the GameController, *)
(* GameView and restart of main.ts around them.                            *)
(*                                                                         *)
(* Four specifications share the variables:                                *)
(*   RngSpec  one ExclusiveRng object driven through its public methods;   *)
(*   Spec     one GameState driven by direction requests and ticks, with   *)
(*            its score submissions settling in between;                   *)
(*   TurnSpec Spec over fewer ticks, the requested directions recorded;    *)
(*   AppSpec  the page: frames and key presses reach the GameState through *)
(*            the GameController, and resetGame starts new runs.           *)
(***************************************************************************)
EXTENDS Integers, Sequences, FiniteSets, TLC

\* ------------------------------------------------------------------------
\* Bounds of the model.
\* ------------------------------------------------------------------------

\* RngSpec: the ranges [low, high] have 0 <= low <= 1 and high <= RngMaxHigh.
RngMaxHigh == 4

\* RngSpec: longest list handed to the constructor.
MaxInitLen == 3

\* Spec: half the side of the game box, floor(GAME_BOX_SIDE / 2).  The source
\* fixes GAME_BOX_SIDE = 21 (half edge 10); the model plays in a smaller box.
HalfEdge == 1

\* Spec: number of food items; the source fixes 10.
FOOD_AMOUNT == 2

\* Spec, AppSpec: number of goToNextState calls explored.
MaxTicks == 6

\* Spec: number of goToNextState calls explored on a game already over.
MaxOverTicks == 2

\* TurnSpec: number of goToNextState calls explored.
MaxTurnTicks == 3

\* OverrunSpec: number of goToNextState calls explored on a game already
\* over.
MaxOverrunTicks == 4

\* AppSpec: number of ticks the animation frames cause, over all runs.
MaxFrameTicks == 4

\* AppSpec: number of runs (GameState objects) explored.
MaxRuns == 2

\* Spec: Math.random() takes the values u / RandomLevels, u in
\* 0 .. RandomLevels - 1.
RandomLevels == 3

\* ViewSpec: the angles of the camera are counted in steps, PiSteps of them
\* to Math.PI.
PiSteps == 4

\* ViewSpec: how far the polar angle of the camera is followed either way.
MaxTheta == 2

\* ------------------------------------------------------------------------
\* State.
\* ------------------------------------------------------------------------
VARIABLES
    low,                      \* ExclusiveRng.low
    high,                     \* ExclusiveRng.high
    excluded,                 \* ExclusiveRng.excluded
    alive,                    \* the ExclusiveRng constructor returned an object
    raised,                   \* what the last call raised: "none" or the error
    result,                   \* value returned by the last generateRandomNumber
    lastCall,                 \* the last call: its name, arguments, and the
                              \* excluded list it started from
    body,                     \* Snake.body, head first
    orientation,              \* Snake.orientation
    hasRotatedSinceLastMove,  \* Snake.hasRotatedSinceLastMove
    foods,                    \* GameState.foods (the cell of each food)
    points,                   \* GameState.points
    gameover,                 \* GameState.gameover
    ticks,                    \* number of goToNextState calls so far
    overTicks,                \* those of them made on a game already over
    notified,                 \* the events the last operation delivered to
                              \* the observers, in order
    storage,                  \* window.localStorage: the items "highscore"
                              \* and "localRun" ({} when the item is absent)
    pending,                  \* the score submissions (fetch) still in flight
    delivered,                \* per run, the game-over notifications its
                              \* observers received so far
    dom,                      \* the points counter and the game-over menu
    mouseEnabled,             \* GameView.mouseEnabled of the current view
    lastUpdated,              \* GameController.lastUpdated ({} when null)
    clock,                    \* time stamp of the latest animation frame that
                              \* changed something
    received,                 \* per observer of a GameStateObservable, the
                              \* events it has handled so far
    inFlight,                 \* the notify call in progress, if any: its
                              \* event and the loop's position
    meshes,                   \* GameView.meshes of the current view: per
                              \* cell, the kind of block drawn on it
    isMouseDown,              \* ViewController.isMouseDown
    camera                    \* CustomOrbitControls of the current view:
                              \* theta, phi, distance

gameVars == <<body, orientation, hasRotatedSinceLastMove, foods, points,
              gameover, ticks, overTicks, notified, storage, pending,
              delivered, dom, mouseEnabled, lastUpdated, clock, received,
              inFlight, meshes, isMouseDown, camera>>
vars == <<low, high, excluded, alive, raised, result, lastCall, body,
          orientation, hasRotatedSinceLastMove, foods, points, gameover, ticks,
          overTicks, notified, storage, pending, delivered, dom, mouseEnabled,
          lastUpdated, clock, received, inFlight, meshes, isMouseDown, camera>>

\* The loop of a GameStateObservable is followed step by step in ObsSpec
\* only; everywhere else a notification is one step of the call that makes it.
observerVars == <<received, inFlight>>

\* The ViewController and the camera are driven in ViewSpec only.
cameraVars == <<isMouseDown, camera>>

InvalidRangeError == "InvalidRangeError"
NoError == "none"
NoResult == "none"

Call(op, a, b, before) == [op |-> op, a |-> a, b |-> b, before |-> before]

\* ------------------------------------------------------------------------
\* CustomOrbitControls and the camera requests of GameView.
\* ------------------------------------------------------------------------
MIN_PHI == 0
MAX_PHI == PiSteps
MIN_DISTANCE == 5
MAX_DISTANCE == 20

Clamped(lo, hi, v) == IF v < lo THEN lo ELSE IF v > hi THEN hi ELSE v

\* CustomOrbitControls.resetCameraPosition
ResetCamera == [theta |-> 0, phi |-> PiSteps \div 2, distance |-> 10]

\* CustomOrbitControls.changeAngle
ControlsChangeAngle(cam, thetaOffset, phiOffset) ==
    [cam EXCEPT !.theta = @ + thetaOffset,
                !.phi = Clamped(MIN_PHI, MAX_PHI, @ + phiOffset)]

\* CustomOrbitControls.changeDistance
ControlsChangeDistance(cam, distanceOffset) ==
    [cam EXCEPT !.distance =
                   Clamped(MIN_DISTANCE, MAX_DISTANCE, @ + distanceOffset)]

\* GameView.changeAngle that serves the request whatever mouseEnabled is.
ChangeAngleAlways(enabled, cam, thetaOffset, phiOffset) ==
    ControlsChangeAngle(cam, thetaOffset, phiOffset)

\* GameView.changeAngle
ChangeAngle(enabled, cam, thetaOffset, phiOffset) ==
    IF enabled THEN ControlsChangeAngle(cam, thetaOffset, phiOffset) ELSE cam

\* GameView.changeDistance
ChangeDistance(enabled, cam, distanceOffset) ==
    IF enabled THEN ControlsChangeDistance(cam, distanceOffset) ELSE cam

\* ------------------------------------------------------------------------
\* Helpers on sequences.
\* ------------------------------------------------------------------------
Range(s) == {s[i] : i \in 1..Len(s)}

Includes(s, v) == \E i \in 1..Len(s) : s[i] = v

Swap(s, i, j) == [s EXCEPT ![i] = s[j], ![j] = s[i]]

IsSorted(s) == \A i \in 1..(Len(s) - 1) : s[i] <= s[i + 1]

HasDuplicates(s) == \E i, j \in 1..Len(s) : i # j /\ s[i] = s[j]

\* ------------------------------------------------------------------------
\* ExclusiveRng
\* ------------------------------------------------------------------------

\* Array.prototype.sort((a, b) => a - b): the elements in ascending order.
RECURSIVE InsertSorted(_, _)
InsertSorted(s, v) ==
    IF s = <<>> THEN <<v>>
    ELSE IF v < Head(s) THEN <<v>> \o s
    ELSE <<Head(s)>> \o InsertSorted(Tail(s), v)

RECURSIVE SortAscending(_)
SortAscending(s) ==
    IF s = <<>> THEN <<>>
    ELSE InsertSorted(SortAscending(Tail(s)), Head(s))

\* constructor: the guard that throws InvalidRangeError.
ConstructorThrows(l, h, ex) ==
    \/ ~(l <= h)
    \/ \E i \in 1..Len(ex) : ~(l <= ex[i] /\ ex[i] <= h)

\* constructor: the excluded list the object starts with.
ConstructorExcluded(ex) == SortAscending(ex)

ValidNumberCount(l, h, ex) == h - l + 1 - Len(ex)

\* The values Math.floor(Math.random() * validNumberCount) can take, with
\* Math.random() in [0, 1).
RandomIndexes(validNumberCount) ==
    IF validNumberCount > 0 THEN 0..(validNumberCount - 1)
    ELSE validNumberCount..0

\* generateRandomNumber: the pass over excluded[i..], starting from numberIdx.
RECURSIVE SkipExcluded(_, _, _)
SkipExcluded(ex, i, numberIdx) ==
    IF i > Len(ex) THEN numberIdx
    ELSE IF ex[i] <= numberIdx THEN SkipExcluded(ex, i + 1, numberIdx + 1)
    ELSE SkipExcluded(ex, i + 1, numberIdx)

\* generateRandomNumber: numberIdx after the loop, for the drawn index r.
GeneratedNumber(l, ex, r) == SkipExcluded(ex, 1, l + r)

GenerateThrows(l, h, ex, r) == GeneratedNumber(l, ex, r) > h

\* addExcluded with the duplicate test left out of the guard.
AddExcludedThrowsRangeOnly(l, h, ex, newExcluded) ==
    ~(l <= newExcluded /\ newExcluded <= h)

\* addExcluded: the guard that throws InvalidRangeError.
AddExcludedThrows(l, h, ex, newExcluded) ==
    \/ ~(l <= newExcluded /\ newExcluded <= h)
    \/ Includes(ex, newExcluded)

\* addExcluded: the loop that sinks the pushed value, i counting down.
RECURSIVE SinkLast(_, _)
SinkLast(s, i) ==
    IF i < 1 THEN s
    ELSE IF s[i + 1] < s[i] THEN SinkLast(Swap(s, i, i + 1), i - 1)
    ELSE s

AddExcludedResult(ex, newExcluded) ==
    SinkLast(Append(ex, newExcluded), Len(ex))

\* updateExcluded: index of the last element equal to oldExcluded, 0 if none
\* (the source's oldIdx + 1).
OldIdx(ex, oldExcluded) ==
    IF Includes(ex, oldExcluded)
    THEN CHOOSE i \in 1..Len(ex) :
            /\ ex[i] = oldExcluded
            /\ \A j \in (i + 1)..Len(ex) : ex[j] # oldExcluded
    ELSE 0

\* updateExcluded: the guards that throw InvalidRangeError.
UpdateExcludedThrows(l, h, ex, oldExcluded, newExcluded) ==
    \/ ~(l <= newExcluded /\ newExcluded <= h)
    \/ Includes(ex, newExcluded)
    \/ OldIdx(ex, oldExcluded) = 0

\* updateExcluded: the elements before oldIdx move one place up and the new
\* value takes the first place.
ShiftAndPlace(ex, oldIdx, newExcluded) ==
    [i \in 1..Len(ex) |->
        IF i = 1 THEN newExcluded
        ELSE IF i <= oldIdx THEN ex[i - 1]
        ELSE ex[i]]

\* updateExcluded: the single pass that swaps neighbours out of order.
RECURSIVE BubblePass(_, _)
BubblePass(s, i) ==
    IF i > Len(s) THEN s
    ELSE IF s[i - 1] > s[i] THEN BubblePass(Swap(s, i - 1, i), i + 1)
    ELSE BubblePass(s, i + 1)

\* updateExcluded overwriting the old value where it sits, with no reordering.
UpdateExcludedInPlace(ex, oldExcluded, newExcluded) ==
    [ex EXCEPT ![OldIdx(ex, oldExcluded)] = newExcluded]

UpdateExcludedResult(ex, oldExcluded, newExcluded) ==
    BubblePass(ShiftAndPlace(ex, OldIdx(ex, oldExcluded), newExcluded), 2)

\* ------------------------------------------------------------------------
\* RngSpec: one ExclusiveRng object and its callers.
\* ------------------------------------------------------------------------

\* The lists of length at most n over the set S.
SeqsUpTo(S, n) == UNION {[1..k -> S] : k \in 0..n}

\* The values a caller may hand in: the range and one value on each side.
ArgValues(l, h) == (l - 1)..(h + 1)

\* The game state plays no part in RngSpec.
NoGame ==
    /\ body = <<>>
    /\ orientation = 0
    /\ hasRotatedSinceLastMove = FALSE
    /\ foods = <<>>
    /\ points = 0
    /\ gameover = FALSE
    /\ ticks = 0
    /\ overTicks = 0
    /\ notified = <<>>
    /\ storage = <<>>
    /\ pending = {}
    /\ delivered = <<>>
    /\ dom = <<>>
    /\ mouseEnabled = FALSE
    /\ lastUpdated = {}
    /\ clock = 0
    /\ received = <<>>
    /\ inFlight = <<>>
    /\ meshes = <<>>
    /\ isMouseDown = FALSE
    /\ camera = ResetCamera

\* new ExclusiveRng(l, h, ex)
RngInit ==
    /\ \E l \in 0..1 : \E h \in 0..RngMaxHigh :
       \E ex \in SeqsUpTo(ArgValues(l, h), MaxInitLen) :
          /\ low = l
          /\ high = h
          /\ lastCall = Call("constructor", l, h, ex)
          /\ IF ConstructorThrows(l, h, ex)
             THEN /\ alive = FALSE
                  /\ raised = InvalidRangeError
                  /\ excluded = <<>>
             ELSE /\ alive = TRUE
                  /\ raised = NoError
                  /\ excluded = ConstructorExcluded(ex)
    /\ result = NoResult
    /\ NoGame

\* generateRandomNumber()
GenerateRandomNumber ==
    /\ alive
    /\ \E r \in RandomIndexes(ValidNumberCount(low, high, excluded)) :
          /\ lastCall' = Call("generateRandomNumber", r, 0, excluded)
          /\ IF GenerateThrows(low, high, excluded, r)
             THEN /\ raised' = InvalidRangeError
                  /\ result' = NoResult
             ELSE /\ raised' = NoError
                  /\ result' = GeneratedNumber(low, excluded, r)
    /\ UNCHANGED <<low, high, excluded, alive>>
    /\ UNCHANGED gameVars

\* addExcluded(newExcluded)
AddExcluded ==
    /\ alive
    /\ \E newExcluded \in ArgValues(low, high) :
          /\ lastCall' = Call("addExcluded", newExcluded, 0, excluded)
          /\ IF AddExcludedThrows(low, high, excluded, newExcluded)
             THEN /\ raised' = InvalidRangeError
                  /\ excluded' = excluded
             ELSE /\ raised' = NoError
                  /\ excluded' = AddExcludedResult(excluded, newExcluded)
    /\ result' = NoResult
    /\ UNCHANGED <<low, high, alive>>
    /\ UNCHANGED gameVars

\* updateExcluded(oldExcluded, newExcluded)
UpdateExcluded ==
    /\ alive
    /\ \E oldExcluded \in ArgValues(low, high) :
       \E newExcluded \in ArgValues(low, high) :
          /\ lastCall' = Call("updateExcluded", oldExcluded, newExcluded, excluded)
          /\ IF UpdateExcludedThrows(low, high, excluded, oldExcluded, newExcluded)
             THEN /\ raised' = InvalidRangeError
                  /\ excluded' = excluded
             ELSE /\ raised' = NoError
                  /\ excluded' = UpdateExcludedResult(excluded, oldExcluded, newExcluded)
    /\ result' = NoResult
    /\ UNCHANGED <<low, high, alive>>
    /\ UNCHANGED gameVars

RngNext ==
    \/ GenerateRandomNumber
    \/ AddExcluded
    \/ UpdateExcluded

RngSpec == RngInit /\ [][RngNext]_vars

\* ------------------------------------------------------------------------
\* Position, Direction
\* ------------------------------------------------------------------------
Position(x, y, z) == <<x, y, z>>

X_POSITIVE == 1
X_NEGATIVE == -1
Y_POSITIVE == 2
Y_NEGATIVE == -2
Z_POSITIVE == 3
Z_NEGATIVE == -3

Direction == {X_POSITIVE, X_NEGATIVE, Y_POSITIVE, Y_NEGATIVE, Z_POSITIVE,
              Z_NEGATIVE}

\* An opposite that sends every direction to the negative one of its axis.
OppositeTowardsNegative(d) == IF d > 0 THEN -d ELSE d

\* -this.orientation: the opposite of a direction is its enum value negated.
Opposite(d) == -d

\* Side of the game box; odd.
GAME_BOX_SIDE == 2 * HalfEdge + 1

\* ------------------------------------------------------------------------
\* ExclusiveRandomPositionGenerator: the lift of ExclusiveRng to the cells
\* of the game box, over the flat range [0, GAME_BOX_SIDE^3).
\* ------------------------------------------------------------------------
MaxCoord == (GAME_BOX_SIDE - 1) \div 2

CellCount == GAME_BOX_SIDE * GAME_BOX_SIDE * GAME_BOX_SIDE

PositionToIndex(p) ==
    (p[1] + MaxCoord) * GAME_BOX_SIDE * GAME_BOX_SIDE
    + (p[2] + MaxCoord) * GAME_BOX_SIDE
    + (p[3] + MaxCoord)

\* A flat index read back with the x and z axes exchanged.
IndexToPositionAxesSwapped(n) ==
    Position((n % GAME_BOX_SIDE) - MaxCoord,
             ((n \div GAME_BOX_SIDE) % GAME_BOX_SIDE) - MaxCoord,
             (n \div (GAME_BOX_SIDE * GAME_BOX_SIDE)) - MaxCoord)

IndexToPosition(n) ==
    Position((n \div (GAME_BOX_SIDE * GAME_BOX_SIDE)) - MaxCoord,
             ((n \div GAME_BOX_SIDE) % GAME_BOX_SIDE) - MaxCoord,
             (n % GAME_BOX_SIDE) - MaxCoord)

\* The values of Math.floor(Math.random() * validNumberCount) for the values
\* of Math.random() the game is played with.
DrawnIndexes(validNumberCount) ==
    {(u * validNumberCount) \div RandomLevels : u \in 0..(RandomLevels - 1)}

\* ------------------------------------------------------------------------
\* Snake
\* ------------------------------------------------------------------------
GetHead(b) == b[1]

TargetBlock(b, o) ==
    LET head == GetHead(b) IN
    CASE o = X_NEGATIVE -> Position(head[1] - 1, head[2], head[3])
      [] o = X_POSITIVE -> Position(head[1] + 1, head[2], head[3])
      [] o = Y_POSITIVE -> Position(head[1], head[2] + 1, head[3])
      [] o = Y_NEGATIVE -> Position(head[1], head[2] - 1, head[3])
      [] o = Z_POSITIVE -> Position(head[1], head[2], head[3] + 1)
      [] o = Z_NEGATIVE -> Position(head[1], head[2], head[3] - 1)

WillEatFoodNext(b, o, food) == TargetBlock(b, o) = food

\* isHeadCrossingBody without the idx != 0 test.
IsHeadCrossingBodyFromHead(b) ==
    \E idx \in 1..Len(b) : GetHead(b) = b[idx]

IsHeadCrossingBody(b) ==
    \E idx \in 1..Len(b) : idx # 1 /\ GetHead(b) = b[idx]

\* isHeadOutOfGameBounds that lets the head one layer out of the box.
IsHeadOutOfGameBoundsBeyondNextLayer(b) ==
    LET half_edge == GAME_BOX_SIDE \div 2
        head == GetHead(b)
    IN \E k \in 1..3 : head[k] < -half_edge - 1 \/ head[k] > half_edge + 1

\* isHeadOutOfGameBounds with the faces of the box counted as outside.
IsHeadOutOfGameBoundsInclusive(b) ==
    LET half_edge == GAME_BOX_SIDE \div 2
        head == GetHead(b)
    IN \E k \in 1..3 : head[k] <= -half_edge \/ head[k] >= half_edge

IsHeadOutOfGameBounds(b) ==
    LET half_edge == GAME_BOX_SIDE \div 2
        head == GetHead(b)
    IN \/ head[1] < -half_edge
       \/ head[1] > half_edge
       \/ head[2] < -half_edge
       \/ head[2] > half_edge
       \/ head[3] < -half_edge
       \/ head[3] > half_edge

\* moveAndNotGrow that puts the new head in place of the old one and leaves
\* the other segments where they are.
MoveHeadOnly(b, o) == <<TargetBlock(b, o)>> \o Tail(b)

\* moveAndNotGrow: the body after the shift and the new head.
MoveAndNotGrowBody(b, o) ==
    <<TargetBlock(b, o)>> \o SubSeq(b, 1, Len(b) - 1)

\* moveAndNotGrow that never tells the generator of the move.
MoveNeverUpdatesOccupancy(newBody) == FALSE

\* moveAndNotGrow telling the generator of every move, terminal or not.
MoveAlwaysUpdatesOccupancy(newBody) == TRUE

\* moveAndNotGrow: the generator is told of the move.
MoveUpdatesOccupancy(newBody) ==
    ~IsHeadOutOfGameBounds(newBody) /\ ~IsHeadCrossingBody(newBody)

\* moveAndGrow that moves the snake on without keeping its last segment.
MoveAndGrowLosingTail(b, o) ==
    <<TargetBlock(b, o)>> \o SubSeq(b, 1, Len(b) - 1)

\* moveAndGrow that unshifts the cell ahead twice.
MoveAndGrowTwice(b, o) == <<TargetBlock(b, o), TargetBlock(b, o)>> \o b

\* moveAndGrow: the body after the unshift.
MoveAndGrowBody(b, o) == <<TargetBlock(b, o)>> \o b

\* tryToSetDirection that accepts every request not opposite to the heading.
DirectionAcceptedWhileRotated(o, rotated, direction) == direction # -o

\* tryToSetDirection that accepts the first request of a tick whatever its
\* direction.
DirectionAcceptedOpposite(o, rotated, direction) == ~rotated

\* tryToSetDirection: the request is accepted.
\* tryToSetDirection that takes a request for the current heading as no
\* rotation.
DirectionAcceptedOnlyTurns(o, rotated, direction) ==
    direction # o /\ direction # Opposite(o) /\ ~rotated

DirectionAccepted(o, rotated, direction) ==
    direction # Opposite(o) /\ ~rotated

\* ------------------------------------------------------------------------
\* GameState
\* ------------------------------------------------------------------------

\* indexOfFoodToBeEaten: Array.findIndex, 0 for the source's -1.
IndexOfFoodToBeEaten(fs, b, o) ==
    IF \E i \in 1..Len(fs) : WillEatFoodNext(b, o, fs[i])
    THEN CHOOSE i \in 1..Len(fs) :
            /\ WillEatFoodNext(b, o, fs[i])
            /\ \A j \in 1..(i - 1) : ~WillEatFoodNext(b, o, fs[j])
    ELSE 0

\* isNowGameOver that only looks for the head on the body.
IsNowGameOverInsideOnly(b) == IsHeadCrossingBody(b)

\* isNowGameOver that only looks for the head outside the box.
IsNowGameOverOutsideOnly(b) == IsHeadOutOfGameBounds(b)

IsNowGameOver(b) == IsHeadCrossingBody(b) \/ IsHeadOutOfGameBounds(b)

\* goToNextState storing the outcome of the check in the flag on every tick.
GameoverRecomputed(over, b) == IsNowGameOver(b)

\* goToNextState: the flag after the termination check.
GameoverAfterCheck(over, b) == IF IsNowGameOver(b) THEN TRUE ELSE over

\* replaceFood that pushes the new food whatever idx is.
ReplacedFoodsAlwaysPush(fs, idx, newFood) == Append(fs, newFood)

\* replaceFood: the food list with newFood pushed (idx = 0) or put at idx.
ReplacedFoods(fs, idx, newFood) ==
    IF idx # 0 THEN [fs EXCEPT ![idx] = newFood] ELSE Append(fs, newFood)

\* The constructor's loop of replaceFood() calls: the food lists and excluded
\* lists that k calls can leave, from the snake alone on (0, 0, 0).
RECURSIVE FoodsPlaced(_)
FoodsPlaced(k) ==
    IF k = 0
    THEN {[foods |-> <<>>,
           excluded |-> AddExcludedResult(ConstructorExcluded(<<>>),
                                          PositionToIndex(Position(0, 0, 0)))]}
    ELSE UNION {
           {[foods |-> ReplacedFoods(s.foods, 0,
                          IndexToPosition(GeneratedNumber(0, s.excluded, r))),
             excluded |-> AddExcludedResult(s.excluded,
                                            GeneratedNumber(0, s.excluded, r))]
              : r \in {q \in DrawnIndexes(ValidNumberCount(0, CellCount - 1, s.excluded)) :
                          ~GenerateThrows(0, CellCount - 1, s.excluded, q)}}
           : s \in FoodsPlaced(k - 1)}

\* The events GameStateObservable hands to every observer.
Event(kind, arg) == [kind |-> kind, arg |-> arg]
SnakeLeft(position) == Event("snakeLeft", position)
SnakeEntered(position) == Event("snakeEntered", position)
FoodLeft(position) == Event("foodLeft", position)
FoodEntered(position) == Event("foodEntered", position)
PointsChanged(newPoints) == Event("pointsChanged", <<newPoints>>)
Gameover(localRunCount, globalRunCount, score, highscore, globalHighscore) ==
    Event("gameover",
          <<localRunCount, globalRunCount, score, highscore, globalHighscore>>)

\* The NaN goToNextState reports for the values the server did not supply: a
\* value no count and no score takes.
NaN == -1

\* window.localStorage.getItem(key) parsed as goToNextState does:
\* stored ? parseInt(stored) : 0.  An item is {} (absent) or {n}, the number
\* whose decimal digits were stored.
StoredInt(item) == IF item = {} THEN 0 ELSE CHOOSE n \in item : TRUE

\* What localStorage holds when the page is first opened.
StoredAtStart == {[highscore |-> {}, localRun |-> {}]}

\* What the submit-run service answers when the submission succeeds.
ServerReplies ==
    {[runCount |-> 7, highscore |-> 5], [runCount |-> 8, highscore |-> 6]}

\* new GameView(aspect): CustomOrbitControls shows the points counter and the
\* constructor hides the game-over menu.
ViewConstructed(d) ==
    [d EXCEPT !.counterVisible = TRUE, !.menuVisible = FALSE]

\* GameView.pointsChanged(newPoints)
PointsShown(d, newPoints) == [d EXCEPT !.counterText = newPoints]

\* GameView.gameover(...): the counter is hidden, the menu is displayed with
\* the five values.
GameoverShown(d, values) ==
    [d EXCEPT !.counterVisible = FALSE, !.menuVisible = TRUE,
              !.menuText = values]

\* The page before the first run is created.
PageLoaded ==
    [counterVisible |-> FALSE, menuVisible |-> FALSE, counterText |-> 0,
     menuText |-> <<>>]

\* The run whose GameState is the current one.
CurrentRun == Len(delivered)

\* The two materials of GameView: snakeMaterial and foodMaterial.
SnakeBlock == "snake"
FoodBlock == "food"

\* this.meshes[position.toStringCustom()] = mesh
MeshPut(m, position, block) ==
    [c \in DOMAIN m \cup {position} |-> IF c = position THEN block ELSE m[c]]

\* delete this.meshes[position.toStringCustom()]
MeshDeleted(m, position) == [c \in DOMAIN m \ {position} |-> m[c]]

\* GameView.snakeLeft, snakeEntered, foodLeft, foodEntered: the map after the
\* view has handled the event e.
ViewHandles(m, e) ==
    CASE e.kind = "snakeLeft" -> MeshDeleted(m, e.arg)
      [] e.kind = "snakeEntered" -> MeshPut(m, e.arg, SnakeBlock)
      [] e.kind = "foodLeft" -> MeshDeleted(m, e.arg)
      [] e.kind = "foodEntered" -> MeshPut(m, e.arg, FoodBlock)
      [] OTHER -> m

\* The map after the view has handled the events, first to last.
RECURSIVE ViewAfter(_, _)
ViewAfter(m, events) ==
    IF events = <<>> THEN m
    ELSE ViewAfter(ViewHandles(m, Head(events)), Tail(events))

\* A constructor that notifies the score before the snake and the foods.
ConstructorEventsScoreFirst(fs) ==
    <<PointsChanged(0), SnakeEntered(Position(0, 0, 0))>>
       \o [i \in 1..Len(fs) |-> FoodEntered(fs[i])]

\* The events the GameState constructor emits for the food list fs.
ConstructorEvents(fs) ==
    <<SnakeEntered(Position(0, 0, 0))>>
       \o [i \in 1..Len(fs) |-> FoodEntered(fs[i])]
       \o <<PointsChanged(0)>>

\* new GameState([gameView]) on a fresh GameView, with a fresh GameController
Init ==
    /\ low = 0
    /\ high = CellCount - 1
    /\ alive = TRUE
    /\ \E s \in FoodsPlaced(FOOD_AMOUNT) :
          /\ foods = s.foods
          /\ excluded = s.excluded
          /\ notified = ConstructorEvents(s.foods)
    /\ body = <<Position(0, 0, 0)>>
    /\ orientation = X_POSITIVE
    /\ hasRotatedSinceLastMove = FALSE
    /\ points = 0
    /\ gameover = FALSE
    /\ raised = NoError
    /\ result = NoResult
    /\ lastCall = Call("constructor", 0, 0, <<>>)
    /\ ticks = 0
    /\ overTicks = 0
    /\ storage \in StoredAtStart
    /\ pending = {}
    /\ delivered = <<0>>
    /\ dom = PointsShown(ViewConstructed(PageLoaded), 0)
    /\ mouseEnabled = TRUE
    /\ lastUpdated = {}
    /\ clock = 0
    /\ received = <<>>
    /\ inFlight = <<>>
    /\ meshes = ViewAfter(<<>>, notified)
    /\ isMouseDown = FALSE
    /\ camera = ResetCamera

\* tryToSetSnakeDirection(direction)
\* tryToSetSnakeDirection that announces the head cell again after a turn.
SetSnakeDirectionAnnouncing(direction) ==
    /\ IF DirectionAccepted(orientation, hasRotatedSinceLastMove, direction)
       THEN /\ orientation' = direction
            /\ hasRotatedSinceLastMove' = TRUE
            /\ notified' = <<SnakeEntered(GetHead(body))>>
       ELSE /\ UNCHANGED <<orientation, hasRotatedSinceLastMove>>
            /\ notified' = <<>>
    /\ raised' = NoError
    /\ UNCHANGED <<low, high, excluded, alive, result>>
    /\ UNCHANGED observerVars
    /\ UNCHANGED meshes
    /\ UNCHANGED cameraVars
    /\ UNCHANGED <<body, foods, points, gameover, ticks, overTicks, storage,
                   pending, delivered, dom, mouseEnabled>>

SetSnakeDirection(direction) ==
    /\ IF DirectionAccepted(orientation, hasRotatedSinceLastMove, direction)
       THEN /\ orientation' = direction
            /\ hasRotatedSinceLastMove' = TRUE
       ELSE UNCHANGED <<orientation, hasRotatedSinceLastMove>>
    /\ raised' = NoError
    /\ notified' = <<>>
    /\ UNCHANGED <<low, high, excluded, alive, result>>
    /\ UNCHANGED observerVars
    /\ UNCHANGED meshes
    /\ UNCHANGED cameraVars
    /\ UNCHANGED <<body, foods, points, gameover, ticks, overTicks, storage,
                   pending, delivered, dom, mouseEnabled>>

\* A direct call of tryToSetSnakeDirection
TryToSetSnakeDirection ==
    /\ \E direction \in Direction : SetSnakeDirection(direction)
    /\ lastCall' = Call("tryToSetSnakeDirection", 0, 0, <<>>)
    /\ UNCHANGED <<lastUpdated, clock>>

Max(a, b) == IF a > b THEN a ELSE b

\* goToNextState storing the score of the finished run as the high score.
HighscoreStoredLastScore(st, pts) == pts

\* goToNextState, game over: the high score and the run number it stores.
HighscoreStored(st, pts) == Max(pts, StoredInt(st.highscore))
RunStored(st) == StoredInt(st.localRun) + 1

\* goToNextState, game over: the submission it sends, with the values its
\* callbacks close over (run, highscore) and the score in the request.
Submission(st, pts) ==
    [gen |-> CurrentRun, run |-> RunStored(st),
     highscore |-> HighscoreStored(st, pts), score |-> pts]

\* goToNextState that stores the statistics of a finished game without
\* submitting the score.
ReportWithoutSubmitting(newBody, newPoints) ==
    IF IsNowGameOver(newBody)
    THEN /\ storage' = [highscore |-> {HighscoreStored(storage, newPoints)},
                        localRun |-> {RunStored(storage)}]
         /\ UNCHANGED pending
    ELSE UNCHANGED <<storage, pending>>

\* goToNextState after the move: when the game is now over the statistics
\* are stored and the score is submitted; nothing is notified here.
ReportIfGameOver(newBody, newPoints) ==
    IF IsNowGameOver(newBody)
    THEN /\ storage' = [highscore |-> {HighscoreStored(storage, newPoints)},
                        localRun |-> {RunStored(storage)}]
         /\ pending' = pending \cup {Submission(storage, newPoints)}
    ELSE UNCHANGED <<storage, pending>>

\* moveAndNotGrow notifying the new head before the cell the tail left.
MoveAndNotGrowEventsEnteredFirst(blockLeft, newHead) ==
    <<SnakeEntered(newHead), SnakeLeft(blockLeft)>>

\* moveAndNotGrow: notifySnakeLeft(blockLeft) comes before the shift,
\* notifySnakeEntered(head) after it.
MoveAndNotGrowEvents(blockLeft, newHead) ==
    <<SnakeLeft(blockLeft), SnakeEntered(newHead)>>

\* goToNextState() when no food is ahead: moveAndNotGrow, then the check.
TickWithoutFood ==
    LET blockLeft == body[Len(body)]
        newBody == MoveAndNotGrowBody(body, orientation)
        oldExcluded == PositionToIndex(blockLeft)
        newExcluded == PositionToIndex(GetHead(newBody))
    IN /\ body' = newBody
       /\ hasRotatedSinceLastMove' = FALSE
       /\ notified' = MoveAndNotGrowEvents(blockLeft, GetHead(newBody))
       /\ UNCHANGED <<foods, points, orientation, dom>>
       /\ IF MoveUpdatesOccupancy(newBody)
          THEN IF UpdateExcludedThrows(low, high, excluded, oldExcluded, newExcluded)
               THEN /\ raised' = InvalidRangeError
                    /\ UNCHANGED <<excluded, gameover, storage, pending>>
               ELSE /\ raised' = NoError
                    /\ excluded' = UpdateExcludedResult(excluded, oldExcluded, newExcluded)
                    /\ gameover' = GameoverAfterCheck(gameover, newBody)
                    /\ ReportIfGameOver(newBody, points)
          ELSE /\ raised' = NoError
               /\ UNCHANGED excluded
               /\ gameover' = GameoverAfterCheck(gameover, newBody)
               /\ ReportIfGameOver(newBody, points)

\* increasePoints counting one point per segment of the grown snake.
IncreasedPointsBySegments(p) == p + p + 2

\* increasePoints: this.points++
IncreasedPoints(p) == p + 1

\* goToNextState() when foods[idx] is ahead: replaceFood(idx), moveAndGrow,
\* increasePoints, then the check.
TickWithFood(idx) ==
    \E r \in DrawnIndexes(ValidNumberCount(low, high, excluded)) :
       LET newFood == GeneratedNumber(low, excluded, r)
           newBody == MoveAndGrowBody(body, orientation)
       IN IF \/ GenerateThrows(low, high, excluded, r)
             \/ AddExcludedThrows(low, high, excluded, newFood)
          THEN /\ raised' = InvalidRangeError
               /\ notified' = <<FoodLeft(foods[idx])>>
               /\ UNCHANGED <<excluded, foods, body, points, gameover,
                              hasRotatedSinceLastMove, orientation, storage,
                              pending, dom>>
          ELSE /\ raised' = NoError
               /\ excluded' = AddExcludedResult(excluded, newFood)
               /\ foods' = ReplacedFoods(foods, idx, IndexToPosition(newFood))
               /\ body' = newBody
               /\ hasRotatedSinceLastMove' = FALSE
               /\ points' = IncreasedPoints(points)
               /\ notified' = <<FoodLeft(foods[idx]),
                                FoodEntered(IndexToPosition(newFood)),
                                SnakeEntered(GetHead(newBody)),
                                PointsChanged(IncreasedPoints(points))>>
               /\ dom' = PointsShown(dom, IncreasedPoints(points))
               /\ gameover' = GameoverAfterCheck(gameover, newBody)
               /\ ReportIfGameOver(newBody, IncreasedPoints(points))
               /\ UNCHANGED orientation

\* goToNextState(), with at most maxOverTicks calls on a game already over
GoToNextStateWithin(maxOverTicks) ==
    /\ ticks < MaxTicks
    /\ gameover => overTicks < maxOverTicks
    /\ ticks' = ticks + 1
    /\ overTicks' = IF gameover THEN overTicks + 1 ELSE overTicks
    /\ lastCall' = Call("goToNextState", 0, 0, <<>>)
    /\ LET consumedFoodIndex == IndexOfFoodToBeEaten(foods, body, orientation)
       IN IF consumedFoodIndex = 0
          THEN TickWithoutFood
          ELSE TickWithFood(consumedFoodIndex)
    /\ UNCHANGED <<low, high, alive, result, delivered, mouseEnabled>>
    /\ UNCHANGED observerVars
    /\ meshes' = ViewAfter(meshes, notified')
    /\ UNCHANGED cameraVars

\* goToNextState()
GoToNextState == GoToNextStateWithin(MaxOverTicks)

\* A direct call of goToNextState
Tick ==
    /\ GoToNextState
    /\ UNCHANGED <<lastUpdated, clock>>

\* The score a callback of the submission p reads from this.points: the
\* current score for the current GameState, and for a discarded GameState the
\* score it was left with.
PointsRead(p) == IF p.gen = CurrentRun THEN points ELSE p.score

\* notifyGameover(...) from a callback of the submission p: every observer of
\* that run (its GameView) handles the event.
NotifyGameover(p, globalRunCount, globalHighscore) ==
    LET values == <<p.run, globalRunCount, PointsRead(p), p.highscore,
                    globalHighscore>>
    IN /\ pending' = pending \ {p}
       /\ notified' = <<Gameover(values[1], values[2], values[3], values[4],
                                 values[5])>>
       /\ delivered' = [delivered EXCEPT ![p.gen] = @ + 1]
       /\ dom' = GameoverShown(dom, values)
       /\ mouseEnabled' = IF p.gen = CurrentRun THEN FALSE ELSE mouseEnabled
       /\ raised' = NoError
       /\ UNCHANGED <<low, high, excluded, alive, result, body, orientation,
                      hasRotatedSinceLastMove, foods, points, gameover, ticks,
                      overTicks, storage, lastUpdated, clock>>
       /\ UNCHANGED observerVars
       /\ UNCHANGED meshes
       /\ UNCHANGED cameraVars

\* The submission succeeded: the .then callback.  lastCall keeps the run of
\* the submission and the two values of the response.
FetchThen ==
    \E p \in pending : \E response \in ServerReplies :
       /\ lastCall' = Call("then", p.gen, 0,
                           <<response.runCount, response.highscore>>)
       /\ NotifyGameover(p, response.runCount, response.highscore)

\* A .catch callback that drops the failure without telling the observers.
FetchCatchSilently ==
    \E p \in pending :
       /\ lastCall' = Call("catch", p.gen, 0, <<>>)
       /\ pending' = pending \ {p}
       /\ notified' = <<>>
       /\ raised' = NoError
       /\ UNCHANGED <<low, high, excluded, alive, result, body, orientation,
                      hasRotatedSinceLastMove, foods, points, gameover, ticks,
                      overTicks, storage, delivered, dom, mouseEnabled,
                      lastUpdated, clock>>
       /\ UNCHANGED observerVars
       /\ UNCHANGED meshes
       /\ UNCHANGED cameraVars

\* The submission failed (rejected, or its answer is unreadable): the .catch
\* callback.  lastCall keeps the run of the submission.
FetchCatch ==
    \E p \in pending :
       /\ lastCall' = Call("catch", p.gen, 0, <<>>)
       /\ NotifyGameover(p, NaN, NaN)

Next ==
    \/ TryToSetSnakeDirection
    \/ Tick

Spec == Init /\ [][Next]_vars

\* ------------------------------------------------------------------------
\* OverrunSpec: the GameState driven as in Spec, with up to MaxOverrunTicks
\* goToNextState calls on a game already over, enough for a snake that left
\* the box to come back into it and eat.
\* ------------------------------------------------------------------------

\* A direct call of goToNextState
OverrunTick ==
    /\ GoToNextStateWithin(MaxOverrunTicks)
    /\ UNCHANGED <<lastUpdated, clock>>

OverrunNext ==
    \/ TryToSetSnakeDirection
    \/ OverrunTick

OverrunSpec == Init /\ [][OverrunNext]_vars

\* ------------------------------------------------------------------------
\* TurnSpec: the GameState driven as in Spec over its first MaxTurnTicks
\* ticks, with the requested direction kept in lastCall.
\* ------------------------------------------------------------------------

\* A direct call of tryToSetSnakeDirection(direction), the argument recorded
RequestDirection ==
    /\ \E direction \in Direction :
          /\ SetSnakeDirection(direction)
          /\ lastCall' = Call("tryToSetSnakeDirection", direction, 0, <<>>)
    /\ UNCHANGED <<lastUpdated, clock>>

\* A direct call of goToNextState, one of the first MaxTurnTicks
EarlyTick ==
    /\ ticks < MaxTurnTicks
    /\ Tick

TurnNext ==
    \/ RequestDirection
    \/ EarlyTick

TurnSpec == Init /\ [][TurnNext]_vars

\* ------------------------------------------------------------------------
\* NoInputSpec: a fresh GameState, its foods anywhere the constructor can
\* place them, ticked over its first MaxTurnTicks ticks with no direction
\* request at all.
\* ------------------------------------------------------------------------

\* The constructor's loop of replaceFood() calls, for every value
\* Math.random() can return: the food lists and excluded lists k calls can
\* leave.
RECURSIVE FoodsPlacedAnywhere(_)
FoodsPlacedAnywhere(k) ==
    IF k = 0
    THEN {[foods |-> <<>>,
           excluded |-> AddExcludedResult(ConstructorExcluded(<<>>),
                                          PositionToIndex(Position(0, 0, 0)))]}
    ELSE UNION {
           {[foods |-> ReplacedFoods(s.foods, 0,
                          IndexToPosition(GeneratedNumber(0, s.excluded, r))),
             excluded |-> AddExcludedResult(s.excluded,
                                            GeneratedNumber(0, s.excluded, r))]
              : r \in {q \in RandomIndexes(ValidNumberCount(0, CellCount - 1, s.excluded)) :
                          ~GenerateThrows(0, CellCount - 1, s.excluded, q)}}
           : s \in FoodsPlacedAnywhere(k - 1)}

\* new GameState([gameView]) on a fresh GameView
NoInputInit ==
    /\ low = 0
    /\ high = CellCount - 1
    /\ alive = TRUE
    /\ \E s \in FoodsPlacedAnywhere(FOOD_AMOUNT) :
          /\ foods = s.foods
          /\ excluded = s.excluded
          /\ notified = ConstructorEvents(s.foods)
    /\ body = <<Position(0, 0, 0)>>
    /\ orientation = X_POSITIVE
    /\ hasRotatedSinceLastMove = FALSE
    /\ points = 0
    /\ gameover = FALSE
    /\ raised = NoError
    /\ result = NoResult
    /\ lastCall = Call("constructor", 0, 0, <<>>)
    /\ ticks = 0
    /\ overTicks = 0
    /\ storage \in StoredAtStart
    /\ pending = {}
    /\ delivered = <<0>>
    /\ dom = PointsShown(ViewConstructed(PageLoaded), 0)
    /\ mouseEnabled = TRUE
    /\ lastUpdated = {}
    /\ clock = 0
    /\ received = <<>>
    /\ inFlight = <<>>
    /\ meshes = ViewAfter(<<>>, notified)
    /\ isMouseDown = FALSE
    /\ camera = ResetCamera

\* The tick driver keeps ticking: the animation loop calls updateGame on
\* every frame, and a frame late enough calls goToNextState.
NoInputSpec == NoInputInit /\ [][EarlyTick]_vars /\ WF_vars(EarlyTick)

\* ------------------------------------------------------------------------
\* The page (main.ts): the GameController between the browser and the
\* GameState, the score submissions settling, and resetGame.
\* ------------------------------------------------------------------------

\* GameController.updateGame: the delay between two ticks.
UPDATE_DELAY == 60

\* How long after the latest frame that changed something the next frame
\* comes: exactly the delay, or just over it.
FrameDelays == {UPDATE_DELAY, UPDATE_DELAY + 1}

\* GameController.updateGame(time)
UpdateGameAt(time) ==
    IF gameover
    THEN UNCHANGED vars
    ELSE IF lastUpdated = {}
         THEN /\ lastUpdated' = {time}
              /\ clock' = time
              /\ lastCall' = Call("updateGame", 0, 0, <<>>)
              /\ raised' = NoError
              /\ notified' = <<>>
              /\ UNCHANGED <<low, high, excluded, alive, result, body,
                             orientation, hasRotatedSinceLastMove, foods,
                             points, gameover, ticks, overTicks, storage,
                             pending, delivered, dom, mouseEnabled>>
              /\ UNCHANGED observerVars
              /\ UNCHANGED meshes
              /\ UNCHANGED cameraVars
         ELSE IF StoredInt(lastUpdated) + UPDATE_DELAY < time
              THEN /\ GoToNextState
                   /\ clock' = time
                   /\ lastUpdated' = IF raised' = NoError
                                     THEN {time}
                                     ELSE lastUpdated
              ELSE UNCHANGED vars

\* One animation frame: animate(time) calls gameController.updateGame(time).
UpdateGame ==
    \E dt \in FrameDelays :
       /\ ( /\ ~gameover
            /\ lastUpdated # {}
            /\ StoredInt(lastUpdated) + UPDATE_DELAY < clock + dt )
          => ticks < MaxFrameTicks
       /\ UpdateGameAt(clock + dt)

\* The keys GameController.onKeyPress and the keydown listener react to.
KeyCodes == {"KeyA", "KeyD", "KeyS", "KeyW", "KeyQ", "KeyE", "KeyR"}

\* GameController.onKeyPress: the direction a key asks for.
KeyDirection(code) ==
    CASE code = "KeyA" -> X_NEGATIVE
      [] code = "KeyD" -> X_POSITIVE
      [] code = "KeyS" -> Y_NEGATIVE
      [] code = "KeyW" -> Y_POSITIVE
      [] code = "KeyQ" -> Z_NEGATIVE
      [] code = "KeyE" -> Z_POSITIVE

\* GameController.onKeyPress(event)
OnKeyPress(code) ==
    IF gameover \/ code \notin {"KeyA", "KeyD", "KeyS", "KeyW", "KeyQ", "KeyE"}
    THEN UNCHANGED vars
    ELSE /\ SetSnakeDirection(KeyDirection(code))
         /\ lastCall' = Call("tryToSetSnakeDirection", 0, 0, <<>>)
         /\ UNCHANGED <<lastUpdated, clock>>

\* resetGame(): a new GameView, a new GameState observed by it, and a new
\* GameController.  The discarded GameState keeps the score it has; its
\* submissions stay in flight.
ResetGame ==
    /\ CurrentRun < MaxRuns
    /\ \E s \in FoodsPlaced(FOOD_AMOUNT) :
          /\ foods' = s.foods
          /\ excluded' = s.excluded
          /\ notified' = ConstructorEvents(s.foods)
    /\ body' = <<Position(0, 0, 0)>>
    /\ orientation' = X_POSITIVE
    /\ hasRotatedSinceLastMove' = FALSE
    /\ points' = 0
    /\ gameover' = FALSE
    /\ raised' = NoError
    /\ lastCall' = Call("resetGame", 0, 0, <<>>)
    /\ pending' = {[p EXCEPT !.score = PointsRead(p)] : p \in pending}
    /\ delivered' = Append(delivered, 0)
    /\ dom' = PointsShown(ViewConstructed(dom), 0)
    /\ mouseEnabled' = TRUE
    /\ lastUpdated' = {}
    /\ UNCHANGED <<low, high, alive, result, ticks, overTicks, storage, clock>>
    /\ UNCHANGED observerVars
    /\ meshes' = ViewAfter(<<>>, notified')
    /\ isMouseDown' = FALSE
    /\ camera' = ResetCamera

\* The keydown listener of main.ts: the key goes to the GameController, and
\* the R key restarts the game.
KeyDown ==
    \E code \in KeyCodes :
       IF code = "KeyR" THEN ResetGame ELSE OnKeyPress(code)

\* A click on the play-again button of the displayed game-over menu.
PlayAgainClick ==
    /\ dom.menuVisible
    /\ ResetGame

AppNext ==
    \/ UpdateGame
    \/ KeyDown
    \/ PlayAgainClick
    \/ FetchThen
    \/ FetchCatch

AppSpec == Init /\ [][AppNext]_vars

\* The submission of a score eventually succeeds or fails.
FairAppSpec == AppSpec /\ WF_vars(FetchThen \/ FetchCatch)

\* ------------------------------------------------------------------------
\* ReturnSpec: the page as in AppSpec, opened in a browser that may have
\* played before: localStorage, which outlives the page, is empty or holds
\* the high score and the run count of earlier visits.
\* ------------------------------------------------------------------------

\* What localStorage holds when the page is opened.
StoredOnReturn ==
    StoredAtStart \cup {[highscore |-> {1}, localRun |-> {3}]}

\* The play button: new GameState([gameView]) on a fresh GameView, with a
\* fresh GameController
ReturnInit ==
    /\ low = 0
    /\ high = CellCount - 1
    /\ alive = TRUE
    /\ \E s \in FoodsPlaced(FOOD_AMOUNT) :
          /\ foods = s.foods
          /\ excluded = s.excluded
          /\ notified = ConstructorEvents(s.foods)
    /\ body = <<Position(0, 0, 0)>>
    /\ orientation = X_POSITIVE
    /\ hasRotatedSinceLastMove = FALSE
    /\ points = 0
    /\ gameover = FALSE
    /\ raised = NoError
    /\ result = NoResult
    /\ lastCall = Call("constructor", 0, 0, <<>>)
    /\ ticks = 0
    /\ overTicks = 0
    /\ storage \in StoredOnReturn
    /\ pending = {}
    /\ delivered = <<0>>
    /\ dom = PointsShown(ViewConstructed(PageLoaded), 0)
    /\ mouseEnabled = TRUE
    /\ lastUpdated = {}
    /\ clock = 0
    /\ received = <<>>
    /\ inFlight = <<>>
    /\ meshes = ViewAfter(<<>>, notified)
    /\ isMouseDown = FALSE
    /\ camera = ResetCamera

ReturnSpec == ReturnInit /\ [][AppNext]_vars

\* ------------------------------------------------------------------------
\* Claims about the game (specification Spec).
\* ------------------------------------------------------------------------

\* The cells the generator excludes.
ExcludedCells == {IndexToPosition(excluded[i]) : i \in 1..Len(excluded)}

\* The cells holding a snake segment or a food item.
OccupiedCells == Range(body) \cup Range(foods)

\* C1: while the game is not over, the cells excluded in the generator are
\* exactly the snake body cells together with the food cells, each excluded
\* once and each inside the flat range.
C1_ExclusionMatchesOccupancy ==
    ~gameover =>
        /\ ExcludedCells = OccupiedCells
        /\ Range(excluded) = {PositionToIndex(c) : c \in OccupiedCells}
        /\ Len(excluded) = Cardinality(OccupiedCells)

\* C1 witness: a running game in which the snake has both grown and moved
\* without growing.
C1_Witness ==
    /\ ~gameover
    /\ lastCall.op = "goToNextState"
    /\ raised = NoError
    /\ points >= 1
    /\ ticks > points

\* C2 (as claimed): a tick of a game that is not over never raises
\* InvalidRangeError.
C2_TickNeverRaises ==
    (lastCall.op = "goToNextState" /\ ~gameover) => raised = NoError

\* The state every food placement must leave: FOOD_AMOUNT foods on pairwise
\* distinct cells, none on the snake, at most one ahead of the head.
FoodsWellPlaced ==
    /\ Len(foods) = FOOD_AMOUNT
    /\ \A i, j \in 1..Len(foods) : i # j => foods[i] # foods[j]
    /\ \A i \in 1..Len(foods) : ~Includes(body, foods[i])
    /\ Cardinality({i \in 1..Len(foods) :
                       WillEatFoodNext(body, orientation, foods[i])}) <= 1

\* C9: after construction and after every call made on a running game (the
\* tick that ends it included) there are exactly FOOD_AMOUNT foods, on
\* pairwise distinct cells, none of them a snake body cell, so at most one
\* food is ahead of the head.
C9_FoodsDistinctOffSnake == overTicks = 0 => FoodsWellPlaced

\* C9 witness: a running game in which a food has been eaten and replaced.
C9_Witness ==
    /\ ~gameover
    /\ points >= 2
    /\ lastCall.op = "goToNextState"
    /\ raised = NoError
    /\ Len(foods) = FOOD_AMOUNT

\* C10: the game-over flag never goes back from true to false.
C10_GameoverNeverReversed == [][gameover => gameover']_vars

\* C10 witness: the flag is still set after a later tick has left the snake
\* in a position that would not end the game.
C10_Witness ==
    /\ gameover
    /\ overTicks >= 1
    /\ lastCall.op = "goToNextState"
    /\ raised = NoError
    /\ ~IsNowGameOver(body)

\* The cell ahead of the head: the head moved one unit along the axis of
\* the heading, forward for a positive heading and backward for a negative.
Ahead ==
    [k \in 1..3 |->
        body[1][k] + (IF orientation = k THEN 1
                      ELSE IF orientation = -k THEN -1 ELSE 0)]

\* C11 (as claimed): a goToNextState call on a game that is over changes
\* neither the body, the foods, the score nor the stored run statistics,
\* and notifies nothing.
C11_GameoverStateImmutable ==
    [][(gameover /\ lastCall'.op = "goToNextState") =>
          /\ body' = body
          /\ foods' = foods
          /\ points' = points
          /\ storage' = storage
          /\ notified' = <<>>]_vars

\* The head is on a segment other than the head.
HeadOnBody == \E i \in 2..Len(body) : body[i] = body[1]

\* A coordinate of the head lies outside [-HalfEdge, HalfEdge].
HeadOutside == \E k \in 1..3 : body[1][k] < -HalfEdge \/ body[1][k] > HalfEdge

C18_NeverFacingNeck == Len(body) >= 2 => Ahead # body[2]

\* C18 witness: a snake of two segments or more that turned after its last
\* move: the cell ahead is not the one straight on from the neck.
C18_Witness ==
    /\ Len(body) >= 2
    /\ lastCall.op = "tryToSetSnakeDirection"
    /\ hasRotatedSinceLastMove
    /\ Ahead # [k \in 1..3 |-> 2 * body[1][k] - body[2][k]]

\* Two cells differ by one unit along exactly one axis.
Adjacent(p, q) ==
    \E k \in 1..3 :
       /\ p[k] - q[k] \in {-1, 1}
       /\ \A m \in 1..3 \ {k} : p[m] = q[m]

\* C19: the body is never empty and consecutive body cells differ by one
\* unit along exactly one axis.
C19_BodyConnected ==
    /\ Len(body) >= 1
    /\ \A i \in 1..(Len(body) - 1) : Adjacent(body[i], body[i + 1])

\* C19 witness: a bent snake of three segments or more that has moved both
\* with and without growing.
C19_Witness ==
    /\ Len(body) >= 3
    /\ ticks > points
    /\ ~gameover
    /\ \E k \in 1..3 : body[1][k] # body[2][k] /\ body[2][k] = body[3][k]

\* C20: a tick of a running game that finds a food on the cell ahead puts
\* that cell in front of the whole previous body, replaces in the food list
\* exactly that food by one on a cell that held neither the snake nor a
\* food, adds one to the score and ends by notifying the new score.
C20_EatingTickGrowsByOne ==
    [][(lastCall'.op = "goToNextState" /\ ~gameover
          /\ \E i \in 1..Len(foods) : foods[i] = Ahead) =>
          \E i \in 1..Len(foods) :
             /\ foods[i] = Ahead
             /\ body' = <<foods[i]>> \o body
             /\ Len(foods') = Len(foods)
             /\ \A j \in 1..Len(foods) : j # i => foods'[j] = foods[j]
             /\ \A j \in 1..Len(body) : foods'[i] # body[j]
             /\ \A j \in 1..Len(foods) : foods'[i] # foods[j]
             /\ points' = points + 1
             /\ notified' # <<>>
             /\ notified'[Len(notified')] = Event("pointsChanged", <<points + 1>>)
      ]_vars

\* C20 witness: a single-segment snake heading +X has just eaten the food
\* on the cell ahead: the body is that cell followed by the cell it left, and
\* the score 1 has been notified.
C20_Witness ==
    /\ lastCall.op = "goToNextState"
    /\ raised = NoError
    /\ orientation = X_POSITIVE
    /\ Len(body) = 2
    /\ body[1] = Position(body[2][1] + 1, body[2][2], body[2][3])
    /\ points = 1
    /\ notified[Len(notified)] = Event("pointsChanged", <<1>>)

\* C28: a non-growing move of a running game that ends it (the cell ahead is
\* outside the box, or holds a segment other than the tail) leaves the
\* exclusion list as it was and raises nothing; one that does not end the
\* game leaves excluded what was excluded with the index of the previous tail
\* cell taken out and the index of the new head cell put in.
C28_NonGrowingMoveAndExclusion ==
    [][(lastCall'.op = "goToNextState" /\ ~gameover
          /\ \A i \in 1..Len(foods) : foods[i] # Ahead) =>
          IF \/ \E k \in 1..3 : Ahead[k] < -HalfEdge \/ Ahead[k] > HalfEdge
             \/ \E j \in 1..(Len(body) - 1) : body[j] = Ahead
          THEN /\ excluded' = excluded
               /\ raised' = NoError
          ELSE /\ Range(excluded') =
                     (Range(excluded) \ {PositionToIndex(body[Len(body)])})
                        \cup {PositionToIndex(Ahead)}
               /\ Len(excluded') = Len(excluded)
      ]_vars

\* C28 witness: a snake of two segments or more has just left the box on a
\* non-growing move; the cell its tail left is still excluded and nothing
\* was raised.
C28_Witness ==
    /\ lastCall.op = "goToNextState"
    /\ raised = NoError
    /\ gameover
    /\ overTicks = 0
    /\ Len(body) >= 2
    /\ \E k \in 1..3 : body[1][k] < -HalfEdge \/ body[1][k] > HalfEdge
    /\ Len(notified) = 2
    /\ notified[1].kind = "snakeLeft"
    /\ Includes(excluded, PositionToIndex(notified[1].arg))

\* C29: a GameState just constructed has its snake on (0,0,0) heading +X,
\* the score 0 and the game running, and its observers were told, in this
\* order: the snake entered (0,0,0); FOOD_AMOUNT times, a food entered a
\* cell, these cells being the foods', all different and none (0,0,0); the
\* score is 0.
C29_ConstructionEventsInOrder ==
    lastCall.op = "constructor" =>
       /\ body = <<Position(0, 0, 0)>>
       /\ orientation = X_POSITIVE
       /\ points = 0
       /\ ~gameover
       /\ Len(foods) = FOOD_AMOUNT
       /\ Len(notified) = FOOD_AMOUNT + 2
       /\ notified[1] = Event("snakeEntered", Position(0, 0, 0))
       /\ \A i \in 1..FOOD_AMOUNT :
             /\ notified[i + 1] = Event("foodEntered", foods[i])
             /\ foods[i] # Position(0, 0, 0)
             /\ \A j \in 1..FOOD_AMOUNT : j # i => foods[j] # foods[i]
       /\ notified[FOOD_AMOUNT + 2] = Event("pointsChanged", <<0>>)

\* C29 witness: a GameState just constructed, whose first food was placed on
\* the first cell of the lattice.
C29_Witness ==
    /\ lastCall.op = "constructor"
    /\ ticks = 0
    /\ notified[2] = Event("foodEntered", IndexToPosition(0))
    /\ notified[Len(notified)].kind = "pointsChanged"

\* C32: in every state of a game the score is the number of segments of the
\* snake minus one.
C32_ScoreIsLengthMinusOne == points = Len(body) - 1

\* C32 witness: a game that ended with a snake of three segments and the
\* score 2.
C32_Witness ==
    /\ gameover
    /\ raised = NoError
    /\ Len(body) = 3
    /\ points = 2

\* C33: while the game is running no two segments of the snake are on the
\* same cell and every segment has all its coordinates within
\* [-HalfEdge, HalfEdge] (the source: [-10, 10]).
C33_RunningBodyDistinctInBox ==
    ~gameover =>
       /\ \A i, j \in 1..Len(body) : i # j => body[i] # body[j]
       /\ \A i \in 1..Len(body) : \A k \in 1..3 :
             -HalfEdge <= body[i][k] /\ body[i][k] <= HalfEdge

\* C33 witness: a running game whose snake has four segments, bent, with
\* its head on a face of the box.
C33_Witness ==
    /\ ~gameover
    /\ lastCall.op = "goToNextState"
    /\ raised = NoError
    /\ Len(body) = 4
    /\ \E k \in 1..3 : body[1][k] = HalfEdge \/ body[1][k] = -HalfEdge
    /\ \E k \in 1..3 : body[1][k] # body[2][k] /\ body[2][k] = body[3][k]

\* C34: a tick of a running game that finds a food on the cell ahead leaves
\* the game running, the new head inside the box and on no other segment;
\* and a tick that ends the game has not made the snake grow.
C34_EatingTickNeverEndsGame ==
    [][/\ (lastCall'.op = "goToNextState" /\ ~gameover
             /\ \E i \in 1..Len(foods) : foods[i] = Ahead) =>
             /\ ~gameover'
             /\ \A k \in 1..3 :
                   -HalfEdge <= body'[1][k] /\ body'[1][k] <= HalfEdge
             /\ \A j \in 2..Len(body') : body'[j] # body'[1]
       /\ (~gameover /\ gameover') =>
             /\ Len(body') = Len(body)
             /\ points' = points
             /\ \A i \in 1..Len(foods) : foods[i] # Ahead
      ]_vars

\* C34 witness: a snake of three segments has just eaten a food on a face of
\* the box, the next cell ahead being outside the box, and the game is
\* still running.
C34_Witness ==
    /\ lastCall.op = "goToNextState"
    /\ raised = NoError
    /\ ~gameover
    /\ Len(body) = 4
    /\ points = 3
    /\ notified[Len(notified)].kind = "pointsChanged"
    /\ \E k \in 1..3 : Ahead[k] < -HalfEdge \/ Ahead[k] > HalfEdge

\* The map a view holds when it draws exactly the body cells as snake blocks
\* and the food cells as food blocks.
ViewShows(m, b, fs) ==
    /\ DOMAIN m = Range(b) \cup Range(fs)
    /\ \A c \in Range(b) : m[c] = SnakeBlock
    /\ \A c \in Range(fs) \ Range(b) : m[c] = FoodBlock

\* The place of the first event of that kind about that cell, 0 if none.
PlaceOf(events, kind, cell) ==
    IF \E i \in 1..Len(events) : events[i] = Event(kind, cell)
    THEN CHOOSE i \in 1..Len(events) :
            /\ events[i] = Event(kind, cell)
            /\ \A j \in 1..(i - 1) : events[j] # Event(kind, cell)
    ELSE 0

\* C35 (as claimed): the map of the view, kept by adding the cell on snake-entered and
\* food-entered and removing it on snake-left and food-left, holds after
\* every completed tick exactly the body cells, marked as snake, and the food
\* cells, marked as food. In the events of an eating tick the food-left of
\* the eaten cell comes before the snake-entered of that cell, and whenever a
\* tick announces both a snake-left and a snake-entered the snake-left comes
\* first.
C35_ViewMapIsBodyAndFoods ==
    lastCall.op = "goToNextState" =>
       /\ raised = NoError => ViewShows(meshes, body, foods)
       /\ PlaceOf(notified, "snakeEntered", GetHead(body)) > 0
       /\ PlaceOf(notified, "foodLeft", GetHead(body)) > 0 =>
             PlaceOf(notified, "foodLeft", GetHead(body))
                < PlaceOf(notified, "snakeEntered", GetHead(body))
       /\ \A i, j \in 1..Len(notified) :
             (notified[i].kind = "snakeLeft"
                /\ notified[j].kind = "snakeEntered") => i < j

\* C21: a tick that finds no food on the cell ahead keeps the length of the
\* body: the new body is the cell ahead followed by the previous body without
\* its last cell. The observers are told that the snake left the previous
\* tail cell and then that it entered the new head cell, and nothing else;
\* the foods and the score do not change.
C21_PlainTickShiftsBody ==
    [][(lastCall'.op = "goToNextState"
          /\ \A i \in 1..Len(foods) : foods[i] # Ahead) =>
          /\ Len(body') = Len(body)
          /\ body'[1] = Ahead
          /\ \A j \in 2..Len(body) : body'[j] = body[j - 1]
          /\ notified' = <<Event("snakeLeft", body[Len(body)]),
                           Event("snakeEntered", Ahead)>>
          /\ foods' = foods
          /\ points' = points
      ]_vars

\* C21 witness: the first tick of the snake [(0,0,0)] heading +X found no
\* food ahead: the body is [(1,0,0)], and the observers were told "left
\* (0,0,0)" and then "entered (1,0,0)".
C21_Witness ==
    /\ lastCall.op = "goToNextState"
    /\ ticks = 1
    /\ points = 0
    /\ body = <<Position(1, 0, 0)>>
    /\ notified = <<Event("snakeLeft", Position(0, 0, 0)),
                    Event("snakeEntered", Position(1, 0, 0))>>

\* C26: a tryToSetSnakeDirection call never raises and leaves the body, the
\* foods, the score, the game-over flag and the exclusion set as they were,
\* and no observer is notified of anything; at most the heading and the
\* rotation lock change.
C26_DirectionRequestOnlyTurns ==
    [][lastCall'.op = "tryToSetSnakeDirection" =>
          /\ raised' = NoError
          /\ body' = body
          /\ foods' = foods
          /\ points' = points
          /\ gameover' = gameover
          /\ excluded' = excluded
          /\ notified' = <<>>
      ]_vars

\* C26 witness: a request made on a finished game with a grown snake was
\* accepted: the snake heads another way than at the start, the rotation
\* lock is set and nothing was notified.
C26_Witness ==
    /\ lastCall.op = "tryToSetSnakeDirection"
    /\ gameover
    /\ Len(body) >= 2
    /\ orientation # X_POSITIVE
    /\ hasRotatedSinceLastMove
    /\ raised = NoError
    /\ notified = <<>>

\* ------------------------------------------------------------------------
\* Claims about direction requests (specification TurnSpec).
\* ------------------------------------------------------------------------

C31_OppositeIsInvolution ==
    /\ \A d \in Direction :
          /\ Opposite(d) \in Direction
          /\ Opposite(Opposite(d)) = d
          /\ Opposite(d) # d
    /\ \A d, e \in Direction : d # e => Opposite(d) # Opposite(e)
    /\ Cardinality(Direction) = 6
    /\ orientation \in Direction
    /\ Opposite(orientation) \in Direction \ {orientation}
    /\ lastCall.op = "tryToSetSnakeDirection" =>
          Opposite(lastCall.a) \in Direction \ {lastCall.a}

\* C31 witness: the snake, turned towards -Z and moved, was asked to head
\* +Z, the opposite of its heading, and keeps heading -Z.
C31_Witness ==
    /\ lastCall.op = "tryToSetSnakeDirection"
    /\ orientation = Z_NEGATIVE
    /\ lastCall.a = Z_POSITIVE
    /\ ~hasRotatedSinceLastMove

\* C36: from a freshly constructed game that receives no direction request,
\* no tick raises, every tick moves the head one cell further along +X, the
\* game is running after each of the first HalfEdge ticks and over after
\* tick HalfEdge + 1, whether foods were eaten on the way or not; and when
\* the tick driver keeps ticking, the run reaches game-over.
C36_StraightRunEnds ==
    /\ [][lastCall'.op = "goToNextState" =>
             /\ raised' = NoError
             /\ orientation' = X_POSITIVE
             /\ GetHead(body') = Position(ticks', 0, 0)
             /\ ticks' <= GAME_BOX_SIDE \div 2 => ~gameover'
             /\ ticks' = GAME_BOX_SIDE \div 2 + 1 => gameover'
         ]_vars
    /\ <>gameover

\* C36 witness: the run went straight, ate the food on its way, and the tick
\* that took the head out of the box has just ended it.
C36_Witness ==
    /\ lastCall.op = "goToNextState"
    /\ orientation = X_POSITIVE
    /\ ticks = GAME_BOX_SIDE \div 2 + 1
    /\ GetHead(body) = Position(ticks, 0, 0)
    /\ points >= 1
    /\ gameover

NonExcluded(l, h, ex) == (l..h) \ Range(ex)

\* The k-th smallest element of the set S, k counted from 0.
KthSmallest(S, k) == CHOOSE v \in S : Cardinality({w \in S : w < v}) = k

\* C3 (as claimed): whenever some value of [low, high] is not excluded, a
\* value returned by generateRandomNumber lies in [low, high] and is not
\* excluded.
C3_ResultInRangeAndNotExcluded ==
    ( /\ lastCall.op = "generateRandomNumber"
      /\ raised = NoError
      /\ NonExcluded(low, high, excluded) # {} )
    => /\ low <= result /\ result <= high
       /\ ~Includes(excluded, result)

\* C4 (as claimed): the drawn index r in [0, validCount) is mapped to the
\* r-th smallest non-excluded value, so the map is a bijection onto the
\* non-excluded values of [low, high].
C4_IndexToRthNonExcluded ==
    ( /\ lastCall.op = "generateRandomNumber"
      /\ ValidNumberCount(low, high, excluded) > 0 )
    => /\ raised = NoError
       /\ result = KthSmallest(NonExcluded(low, high, excluded), lastCall.a)
       /\ {GeneratedNumber(low, excluded, r) :
              r \in 0..(ValidNumberCount(low, high, excluded) - 1)}
          = NonExcluded(low, high, excluded)

\* C5: the excluded list is in ascending order in every state of a
\* constructed generator.
C5_ExcludedSorted == alive => IsSorted(excluded)

\* C5 witness: a successful updateExcluded whose old value sat at one end of
\* a list of three or more and whose new value landed strictly inside it.
C5_Witness ==
    /\ lastCall.op = "updateExcluded"
    /\ raised = NoError
    /\ Len(excluded) >= 3
    /\ lastCall.before[Len(lastCall.before)] = lastCall.a
    /\ \E i \in 2..(Len(excluded) - 1) : excluded[i] = lastCall.b

\* C6 (as claimed): updateExcluded(old, new) raises if old is not excluded,
\* new is out of range or new is already excluded, and then leaves the list
\* as it was; when it succeeds the excluded set is the previous set minus
\* {old} plus {new} and has the same size.
C6_UpdateIsAtomicSubstitution ==
    lastCall.op = "updateExcluded" =>
        LET before == lastCall.before
            old == lastCall.a
            new == lastCall.b
            bad == \/ ~Includes(before, old)
                   \/ ~(low <= new /\ new <= high)
                   \/ Includes(before, new)
        IN /\ bad => (raised = InvalidRangeError /\ excluded = before)
           /\ ~bad =>
                /\ raised = NoError
                /\ Range(excluded) = (Range(before) \ {old}) \cup {new}
                /\ Cardinality(Range(excluded)) = Cardinality(Range(before))
                /\ Len(excluded) = Len(before)

\* C7: addExcluded(v) raises exactly when v is out of range or already
\* excluded, and then leaves the list as it was; otherwise the excluded set
\* is the previous set plus {v}, one larger.
C7_AddRejectsOrInsertsOne ==
    lastCall.op = "addExcluded" =>
        LET before == lastCall.before
            v == lastCall.a
            bad == ~(low <= v /\ v <= high) \/ Includes(before, v)
        IN /\ (raised = InvalidRangeError) <=> bad
           /\ bad => excluded = before
           /\ ~bad =>
                /\ Range(excluded) = Range(before) \cup {v}
                /\ Cardinality(Range(excluded)) = Cardinality(Range(before)) + 1
                /\ Len(excluded) = Len(before) + 1

\* C7 witness: a value accepted into a non-empty list, and placed before
\* its last element.
C7_Witness ==
    /\ lastCall.op = "addExcluded"
    /\ raised = NoError
    /\ Len(lastCall.before) >= 1
    /\ excluded[Len(excluded)] # lastCall.a

\* C8 (as claimed): the constructor, addExcluded and updateExcluded all
\* report an out-of-range value, an already excluded value (a value repeated
\* in the constructor's list included) or a missing value to replace as
\* InvalidRangeError.
C8_BadInputAlwaysReported ==
    /\ lastCall.op = "constructor" =>
          ( ( \/ \E i \in 1..Len(lastCall.before) :
                    ~(low <= lastCall.before[i] /\ lastCall.before[i] <= high)
              \/ HasDuplicates(lastCall.before) )
            => raised = InvalidRangeError )
    /\ lastCall.op = "addExcluded" =>
          ( ( \/ ~(low <= lastCall.a /\ lastCall.a <= high)
              \/ Includes(lastCall.before, lastCall.a) )
            => raised = InvalidRangeError )
    /\ lastCall.op = "updateExcluded" =>
          ( ( \/ ~(low <= lastCall.b /\ lastCall.b <= high)
              \/ Includes(lastCall.before, lastCall.b)
              \/ ~Includes(lastCall.before, lastCall.a) )
            => raised = InvalidRangeError )

\* C30 (as claimed): a generateRandomNumber call made when every value of
\* [low, high] is excluded raises InvalidRangeError and returns no value.
C30_ExhaustedRangeRaises ==
    ( /\ lastCall.op = "generateRandomNumber"
      /\ NonExcluded(low, high, lastCall.before) = {} )
    => /\ raised = InvalidRangeError
       /\ result = NoResult

\* ------------------------------------------------------------------------
\* Claims about the page (specifications AppSpec and FairAppSpec).
\* ------------------------------------------------------------------------

\* C13 (as claimed): when goToNextState returns with the game over, the
\* observers of the run have already received its game-over notification.
C13_GameoverNotifiedWithinTick ==
    (lastCall.op = "goToNextState" /\ gameover) => delivered[CurrentRun] >= 1

\* The values of the game-over notification the last step delivered.
LastGameover == notified[1].arg

\* What every state shows of the game-over notifications: no run has
\* received two; the run that is over and has received none has its
\* submission in flight; the notification just delivered to the current run
\* carries its score, the number of foods eaten (one per segment grown); and
\* the one delivered by .then carries the two values of the response.
GameoverDeliveredOnce ==
    /\ \A g \in 1..Len(delivered) : delivered[g] <= 1
    /\ (gameover /\ delivered[CurrentRun] = 0) =>
          \E p \in pending : p.gen = CurrentRun
    /\ lastCall.op \in {"then", "catch"} =>
          /\ Len(notified) = 1
          /\ notified[1].kind = "gameover"
          /\ delivered[lastCall.a] = 1
          /\ lastCall.a = CurrentRun =>
                /\ LastGameover[3] = points
                /\ LastGameover[3] = Len(body) - 1
    /\ lastCall.op = "then" =>
          /\ LastGameover[2] = lastCall.before[1]
          /\ LastGameover[5] = lastCall.before[2]

C15_FailureOnlyYieldsNaN ==
    [][lastCall'.op = "catch" =>
          /\ raised' = NoError
          /\ UNCHANGED <<body, foods, points, gameover, orientation,
                         hasRotatedSinceLastMove, excluded, storage,
                         lastUpdated>>
          /\ \E p \in pending :
                /\ p.gen = lastCall'.a
                /\ pending' = pending \ {p}
                /\ delivered'[p.gen] = delivered[p.gen] + 1
                /\ notified' = <<Gameover(p.run, NaN, PointsRead(p),
                                          p.highscore, NaN)>>
                /\ p.gen = CurrentRun =>
                      /\ gameover
                      /\ p.run = StoredInt(storage.localRun)
                      /\ p.highscore = StoredInt(storage.highscore)
                      /\ PointsRead(p) = points
      ]_vars

\* C15 witness: the submission of a run that ended with a score of at least
\* one has failed and its observers have the notification with the NaNs.
C15_Witness ==
    /\ lastCall.op = "catch"
    /\ lastCall.a = CurrentRun
    /\ gameover
    /\ points >= 1
    /\ notified = <<Gameover(StoredInt(storage.localRun), NaN, points,
                             StoredInt(storage.highscore), NaN)>>

\* C16 (as claimed): while a run started by resetGame is not over, the
\* game-over menu stays hidden and the points counter stays shown.
C16_RestartLeavesNothingInFlight ==
    (CurrentRun >= 2 /\ ~gameover) =>
       (~dom.menuVisible /\ dom.counterVisible)

\* ------------------------------------------------------------------------
\* The Snake's queries on its own body (specification SnakeSpec): a snake
\* in any position a game can bring it to is asked isHeadCrossingBody() and
\* isHeadOutOfGameBounds().
\* ------------------------------------------------------------------------
MaxBodyLen == 5

\* The cells of the box and those one step outside it: where a head can be.
HeadCells ==
    {Position(x, y, z) : x, y, z \in (-HalfEdge - 1)..(HalfEdge + 1)}

\* The body of a snake whose head is on the cell h and whose segments lie,
\* from the head backwards, in the directions steps[1], steps[2], ...
RECURSIVE Trail(_, _)
Trail(h, steps) ==
    IF steps = <<>> THEN <<h>>
    ELSE <<h>> \o Trail(TargetBlock(<<h>>, Head(steps)), Tail(steps))

\* tryToSetDirection never turns the snake back on its neck.
NeverTurnsBack(steps) ==
    \A i \in 1..(Len(steps) - 1) : steps[i + 1] # -steps[i]

snakeFrame == <<low, high, excluded, alive, raised, body, orientation,
                hasRotatedSinceLastMove, foods, points, gameover, ticks,
                overTicks, notified, storage, pending, delivered, dom,
                mouseEnabled, lastUpdated, clock, received, inFlight,
                meshes, isMouseDown, camera>>

SnakeInit ==
    /\ \E h \in HeadCells : \E steps \in SeqsUpTo(Direction, MaxBodyLen - 1) :
          /\ NeverTurnsBack(steps)
          /\ body = Trail(h, steps)
    /\ orientation = X_POSITIVE
    /\ hasRotatedSinceLastMove = FALSE
    /\ low = 0
    /\ high = CellCount - 1
    /\ excluded = <<>>
    /\ alive = TRUE
    /\ raised = NoError
    /\ result = NoResult
    /\ lastCall = Call("constructor", 0, 0, <<>>)
    /\ foods = <<>>
    /\ points = 0
    /\ gameover = FALSE
    /\ ticks = 0
    /\ overTicks = 0
    /\ notified = <<>>
    /\ storage = <<>>
    /\ pending = {}
    /\ delivered = <<>>
    /\ dom = <<>>
    /\ mouseEnabled = FALSE
    /\ lastUpdated = {}
    /\ clock = 0
    /\ received = <<>>
    /\ inFlight = <<>>
    /\ meshes = <<>>
    /\ isMouseDown = FALSE
    /\ camera = ResetCamera

\* snake.isHeadCrossingBody()
CallIsHeadCrossingBody ==
    /\ result' = IsHeadCrossingBody(body)
    /\ lastCall' = Call("isHeadCrossingBody", 0, 0, <<>>)
    /\ UNCHANGED snakeFrame

\* snake.isHeadOutOfGameBounds()
CallIsHeadOutOfGameBounds ==
    /\ result' = IsHeadOutOfGameBounds(body)
    /\ lastCall' = Call("isHeadOutOfGameBounds", 0, 0, <<>>)
    /\ UNCHANGED snakeFrame

SnakeNext == CallIsHeadCrossingBody \/ CallIsHeadOutOfGameBounds

SnakeSpec == SnakeInit /\ [][SnakeNext]_vars

\* C22: isHeadCrossingBody() answers true exactly when the head cell is also
\* the cell of a segment other than the head; a one-segment snake never
\* crosses itself.
C22_CrossingIffHeadCellRepeats ==
    lastCall.op = "isHeadCrossingBody" =>
       /\ (result = TRUE) <=> (\E i \in 2..Len(body) : body[i] = body[1])
       /\ Len(body) = 1 => result = FALSE

\* C22 witness: a snake that has gone round a square, its head on the cell
\* of its fifth segment, was answered true.
C22_Witness ==
    /\ lastCall.op = "isHeadCrossingBody"
    /\ Len(body) = 5
    /\ body[5] = body[1]
    /\ result = TRUE

\* C23: isHeadOutOfGameBounds() answers true exactly when a coordinate of the
\* head is below -floor(S/2) or above floor(S/2), S being GAME_BOX_SIDE: a
\* head with every coordinate within the box is in bounds, a head with a
\* coordinate one step beyond a face is out.
C23_OutsideIffCoordinateBeyondHalfSide ==
    LET half == GAME_BOX_SIDE \div 2
    IN lastCall.op = "isHeadOutOfGameBounds" =>
          /\ (result = TRUE) <=>
                (\E k \in 1..3 : body[1][k] < -half \/ body[1][k] > half)
          /\ (\A k \in 1..3 : -half <= body[1][k] /\ body[1][k] <= half)
                => result = FALSE
          /\ (\E k \in 1..3 : body[1][k] = half + 1 \/ body[1][k] = -half - 1)
                => result = TRUE

\* C23 witness: a head on a face of the box in x and z and one step beyond
\* the face in -y was answered true.
C23_Witness ==
    /\ lastCall.op = "isHeadOutOfGameBounds"
    /\ body[1] = Position(HalfEdge, -HalfEdge - 1, -HalfEdge)
    /\ result = TRUE

\* ------------------------------------------------------------------------
\* The GameController alone (specification CtrlSpec): one GameController
\* with its GameState, called with animation frames and key presses.
\* ------------------------------------------------------------------------

\* gameController.updateGame(time) with the time stamp of a frame: one that
\* comes right after the latest frame that changed something, or one of those
\* coming FrameDelays after it.
Frame == \E dt \in {1} \cup FrameDelays : UpdateGameAt(clock + dt)

\* gameController.onKeyPress(event)
KeyPress == \E code \in KeyCodes : OnKeyPress(code)

CtrlNext == Frame \/ KeyPress

CtrlSpec == Init /\ [][CtrlNext]_vars

\* C24 (as claimed): updateGame calls goToNextState at most once, never on
\* its first invocation, never on a game that is over, and only with a time
\* stamp more than UPDATE_DELAY after the one lastUpdated holds; any two
\* consecutive goToNextState calls carry time stamps more than UPDATE_DELAY
\* apart (clock holds the time stamp of the previous call once there was
\* one); and a direction request is never forwarded on a game that is over.
C24_TicksMoreThanDelayApart ==
    [][/\ ticks' # ticks =>
             /\ ticks' = ticks + 1
             /\ ~gameover
             /\ lastUpdated # {}
             /\ clock' > StoredInt(lastUpdated) + UPDATE_DELAY
       /\ (ticks' # ticks /\ ticks >= 1) => clock' > clock + UPDATE_DELAY
       /\ lastCall'.op = "tryToSetSnakeDirection" => ~gameover
      ]_vars

\* ------------------------------------------------------------------------
\* GameStateObservable alone (specification ObsSpec): an observable with its
\* list of observers, whose notify methods are called one after the other.
\* Each pass of a method's loop over the observers is one step; notified
\* keeps the events of the calls made so far.
\* ------------------------------------------------------------------------
MaxObservers == 3
MaxNotifications == 2

\* The cells and the scores the notify methods are called with.
ObservedCells == {Position(0, 0, 0), Position(1, 0, 0)}
ObservedPoints == {0, 1}
ObservedGameovers == {<<1, 7, 0, 0, 5>>, <<1, NaN, 0, 0, NaN>>}

\* A loop that walks the observers from the last one to the first.
ObserverAtFromLast(step) == Len(received) + 1 - step

\* for (let observer of this.observers): the observer the loop reaches in
\* its step-th pass.
ObserverAt(step) == step

\* new GameStateObservable(observers)
ObsInit ==
    /\ \E n \in 0..MaxObservers : received = [i \in 1..n |-> <<>>]
    /\ inFlight = <<>>
    /\ meshes = <<>>
    /\ isMouseDown = FALSE
    /\ camera = ResetCamera
    /\ notified = <<>>
    /\ lastCall = Call("constructor", 0, 0, <<>>)
    /\ low = 0
    /\ high = 0
    /\ excluded = <<>>
    /\ alive = TRUE
    /\ raised = NoError
    /\ result = NoResult
    /\ body = <<>>
    /\ orientation = 0
    /\ hasRotatedSinceLastMove = FALSE
    /\ foods = <<>>
    /\ points = 0
    /\ gameover = FALSE
    /\ ticks = 0
    /\ overTicks = 0
    /\ storage = <<>>
    /\ pending = {}
    /\ delivered = <<>>
    /\ dom = <<>>
    /\ mouseEnabled = FALSE
    /\ lastUpdated = {}
    /\ clock = 0

obsFrame == <<low, high, excluded, alive, raised, result, body, orientation,
              hasRotatedSinceLastMove, foods, points, gameover, ticks,
              overTicks, storage, pending, delivered, dom, mouseEnabled,
              lastUpdated, clock, meshes, isMouseDown, camera>>

\* A notify method is entered with the event e: its loop starts, or is over
\* at once when there is no observer.
EnterNotify(e) ==
    /\ inFlight = <<>>
    /\ Len(notified) < MaxNotifications
    /\ notified' = Append(notified, e)
    /\ lastCall' = Call(e.kind, 0, 0, <<>>)
    /\ inFlight' = IF Len(received) = 0 THEN <<>>
                   ELSE <<[event |-> e, step |-> 1]>>
    /\ UNCHANGED received
    /\ UNCHANGED obsFrame

NotifySnakeLeft == \E p \in ObservedCells : EnterNotify(SnakeLeft(p))

NotifySnakeEntered == \E p \in ObservedCells : EnterNotify(SnakeEntered(p))

NotifyFoodLeft == \E p \in ObservedCells : EnterNotify(FoodLeft(p))

NotifyFoodEntered == \E p \in ObservedCells : EnterNotify(FoodEntered(p))

NotifyPointsChanged == \E n \in ObservedPoints : EnterNotify(PointsChanged(n))

NotifyGameoverValues ==
    \E v \in ObservedGameovers :
       EnterNotify(Gameover(v[1], v[2], v[3], v[4], v[5]))

\* One pass of the loop: the next observer handles the event.
ObserverHandles ==
    /\ inFlight # <<>>
    /\ LET call == inFlight[1]
           observer == ObserverAt(call.step)
       IN /\ received' = [received EXCEPT ![observer] = Append(@, call.event)]
          /\ inFlight' = IF call.step = Len(received) THEN <<>>
                         ELSE <<[call EXCEPT !.step = @ + 1]>>
    /\ UNCHANGED <<notified, lastCall>>
    /\ UNCHANGED obsFrame

ObsNext ==
    \/ NotifySnakeLeft
    \/ NotifySnakeEntered
    \/ NotifyFoodLeft
    \/ NotifyFoodEntered
    \/ NotifyPointsChanged
    \/ NotifyGameoverValues
    \/ ObserverHandles

ObsSpec == ObsInit /\ [][ObsNext]_vars

\* s is the beginning of t.
IsPrefix(s, t) == Len(s) <= Len(t) /\ \A i \in 1..Len(s) : s[i] = t[i]

MaxOccupied == 2

\* The cells of the lattice: every coordinate within floor(S/2) of 0.
InLattice(c) ==
    \A k \in 1..3 :
       -(GAME_BOX_SIDE \div 2) <= c[k] /\ c[k] <= GAME_BOX_SIDE \div 2

LatticeCells ==
    LET half == GAME_BOX_SIDE \div 2
    IN {Position(x, y, z) : x, y, z \in (-half)..half}

\* The cells the generator is handed: the centre, a cell next to it and two
\* opposite corners of the lattice.
HandedCells ==
    {Position(0, 0, 0), Position(0, 0, 1),
     Position(MaxCoord, MaxCoord, MaxCoord),
     Position(-MaxCoord, -MaxCoord, -MaxCoord)}

\* new ExclusiveRandomPositionGenerator((GAME_BOX_SIDE - 1) / 2)
GenInit ==
    /\ low = 0
    /\ high = CellCount - 1
    /\ excluded = ConstructorExcluded(<<>>)
    /\ alive = TRUE
    /\ raised = NoError
    /\ result = NoResult
    /\ lastCall = Call("constructor", 0, 0, <<>>)
    /\ foods = <<>>
    /\ body = <<>>
    /\ orientation = 0
    /\ hasRotatedSinceLastMove = FALSE
    /\ points = 0
    /\ gameover = FALSE
    /\ ticks = 0
    /\ overTicks = 0
    /\ notified = <<>>
    /\ storage = <<>>
    /\ pending = {}
    /\ delivered = <<>>
    /\ dom = <<>>
    /\ mouseEnabled = FALSE
    /\ lastUpdated = {}
    /\ clock = 0
    /\ received = <<>>
    /\ inFlight = <<>>
    /\ meshes = <<>>
    /\ isMouseDown = FALSE
    /\ camera = ResetCamera

genFrame == <<low, high, alive, body, orientation, hasRotatedSinceLastMove,
              points, gameover, ticks, overTicks, notified, storage, pending,
              delivered, dom, mouseEnabled, lastUpdated, clock, received,
              inFlight, meshes, isMouseDown, camera>>

\* rng.addOcuppated(c)
AddOcuppated ==
    \E c \in HandedCells :
       /\ lastCall' = Call("addOcuppated", 0, 0, <<>>)
       /\ IF AddExcludedThrows(low, high, excluded, PositionToIndex(c))
          THEN /\ raised' = InvalidRangeError
               /\ UNCHANGED <<excluded, foods>>
          ELSE /\ Len(foods) < MaxOccupied
               /\ raised' = NoError
               /\ excluded' = AddExcludedResult(excluded, PositionToIndex(c))
               /\ foods' = Append(foods, c)
       /\ UNCHANGED result
       /\ UNCHANGED genFrame

\* rng.updateOccupated(old, new), old being a cell the generator was handed
UpdateOccupated ==
    \E i \in 1..Len(foods) : \E c \in HandedCells :
       /\ lastCall' = Call("updateOccupated", 0, 0, <<>>)
       /\ IF UpdateExcludedThrows(low, high, excluded,
                                  PositionToIndex(foods[i]), PositionToIndex(c))
          THEN /\ raised' = InvalidRangeError
               /\ UNCHANGED <<excluded, foods>>
          ELSE /\ raised' = NoError
               /\ excluded' = UpdateExcludedResult(excluded,
                                 PositionToIndex(foods[i]), PositionToIndex(c))
               /\ foods' = [foods EXCEPT ![i] = c]
       /\ UNCHANGED result
       /\ UNCHANGED genFrame

\* rng.generate()
Generate ==
    \E r \in RandomIndexes(ValidNumberCount(low, high, excluded)) :
       /\ lastCall' = Call("generate", 0, 0, <<>>)
       /\ IF GenerateThrows(low, high, excluded, r)
          THEN /\ raised' = InvalidRangeError
               /\ result' = NoResult
          ELSE /\ raised' = NoError
               /\ result' = IndexToPosition(GeneratedNumber(low, excluded, r))
       /\ UNCHANGED <<excluded, foods>>
       /\ UNCHANGED genFrame

GenNext == AddOcuppated \/ UpdateOccupated \/ Generate

GenSpec == GenInit /\ [][GenNext]_vars

\* C27: the flat index of a cell and the cell of a flat index are inverse
\* bijections between the S^3 cells of the lattice and [0, S^3); the indexes
\* excluded are exactly those of the cells the generator was handed, one
\* each; and a cell the generator gives lies in the lattice and is none of
\* the cells it was handed.
C27_CellsAndIndexesCorrespond ==
    /\ \A c \in LatticeCells :
          /\ 0 <= PositionToIndex(c) /\ PositionToIndex(c) < CellCount
          /\ IndexToPosition(PositionToIndex(c)) = c
    /\ \A n \in 0..(CellCount - 1) :
          /\ InLattice(IndexToPosition(n))
          /\ PositionToIndex(IndexToPosition(n)) = n
    /\ Len(excluded) = Len(foods)
    /\ \A n \in 0..(CellCount - 1) :
          Includes(excluded, n) <=> Includes(foods, IndexToPosition(n))
    /\ (lastCall.op = "generate" /\ raised = NoError) =>
          /\ InLattice(result)
          /\ ~Includes(foods, result)

\* C27 witness: a generator handed the cells (0,0,0) and (0,0,1) gave the
\* corner cell with every coordinate at floor(S/2).
C27_Witness ==
    /\ lastCall.op = "generate"
    /\ raised = NoError
    /\ foods = <<Position(0, 0, 0), Position(0, 0, 1)>>
    /\ result = Position(MaxCoord, MaxCoord, MaxCoord)

\* ------------------------------------------------------------------------
\* Claims about the stored statistics (specification ReturnSpec).
\* ------------------------------------------------------------------------

\* C38: over the runs the GameController drives, the stored run count
\* changes exactly in the step that ends a run, and then grows by one; the
\* stored high score never decreases; the step that ends a run stores, and
\* hands to the callbacks of its submission, the larger of the score of the
\* run and the high score stored before; and the game-over an observer is
\* told of carries the run count and the high score of that submission, the
\* high score not below the score it is told with.
C38_StoredStatistics ==
    [][/\ StoredInt(storage'.highscore) >= StoredInt(storage.highscore)
       /\ (storage'.localRun # storage.localRun) <=> (~gameover /\ gameover')
       /\ (~gameover /\ gameover') =>
             /\ storage'.localRun = {StoredInt(storage.localRun) + 1}
             /\ storage'.highscore =
                   {Max(points', StoredInt(storage.highscore))}
             /\ \E p \in pending' \ pending :
                   /\ pending' = pending \cup {p}
                   /\ p.gen = CurrentRun
                   /\ p.score = points'
                   /\ p.run = StoredInt(storage.localRun) + 1
                   /\ p.highscore = Max(points', StoredInt(storage.highscore))
       /\ lastCall'.op \in {"then", "catch"} =>
             \E p \in pending \ pending' :
                /\ notified'[1].kind = "gameover"
                /\ notified'[1].arg[1] = p.run
                /\ notified'[1].arg[3] = p.score
                /\ notified'[1].arg[4] = p.highscore
                /\ notified'[1].arg[4] >= notified'[1].arg[3]
      ]_vars

\* C38 witness: the browser had played 3 runs with high score 1; two runs of
\* this visit have ended, and the second run's game-over has just been
\* reported as run 5 with the high score 1 of the earlier visits.
C38_Witness ==
    /\ lastCall.op \in {"then", "catch"}
    /\ lastCall.a = 2
    /\ CurrentRun = 2
    /\ storage = [highscore |-> {1}, localRun |-> {5}]
    /\ notified[1].kind = "gameover"
    /\ notified[1].arg[1] = 5
    /\ notified[1].arg[4] = 1

\* ------------------------------------------------------------------------
\* ViewSpec: one GameView with its ViewController, driven by the mouse, the
\* wheel and the keyboard, told of the game-over at any time.  The game
\* itself stands still.
\* ------------------------------------------------------------------------

\* event.movementX / 300 and event.movementY / 300, in steps
MouseMovements == {-1, 0, 1}

\* event.deltaY / 300
WheelOffsets == {-5, 5}

\* The values a game-over is announced with.
GameoverValues == {<<1, NaN, 0, 0, NaN>>, <<1, 7, 0, 0, 5>>}

\* new GameView(aspect); new ViewController(gameView)
ViewInit ==
    /\ isMouseDown = FALSE
    /\ camera = ResetCamera
    /\ mouseEnabled = TRUE
    /\ dom = ViewConstructed(PageLoaded)
    /\ lastCall = Call("constructor", 0, 0, <<>>)
    /\ meshes = <<>>
    /\ received = <<>>
    /\ inFlight = <<>>
    /\ notified = <<>>
    /\ low = 0
    /\ high = 0
    /\ excluded = <<>>
    /\ alive = TRUE
    /\ raised = NoError
    /\ result = NoResult
    /\ body = <<>>
    /\ orientation = 0
    /\ hasRotatedSinceLastMove = FALSE
    /\ foods = <<>>
    /\ points = 0
    /\ gameover = FALSE
    /\ ticks = 0
    /\ overTicks = 0
    /\ storage = <<>>
    /\ pending = {}
    /\ delivered = <<>>
    /\ lastUpdated = {}
    /\ clock = 0

viewFrame == <<low, high, excluded, alive, raised, result, body, orientation,
               hasRotatedSinceLastMove, foods, points, gameover, ticks,
               overTicks, notified, storage, pending, delivered, lastUpdated,
               clock, received, inFlight, meshes>>

\* ViewController.onMouseDown
OnMouseDown ==
    /\ isMouseDown' = TRUE
    /\ lastCall' = Call("onMouseDown", 0, 0, <<>>)
    /\ UNCHANGED <<camera, mouseEnabled, dom>>
    /\ UNCHANGED viewFrame

\* ViewController.onMouseUp
OnMouseUp ==
    /\ isMouseDown' = FALSE
    /\ lastCall' = Call("onMouseUp", 0, 0, <<>>)
    /\ UNCHANGED <<camera, mouseEnabled, dom>>
    /\ UNCHANGED viewFrame

\* ViewController.onMouseMove(event)
OnMouseMove ==
    \E movementX \in MouseMovements : \E movementY \in MouseMovements :
       /\ camera' = IF isMouseDown
                    THEN ChangeAngle(mouseEnabled, camera, movementX,
                                     -movementY)
                    ELSE camera
       /\ camera'.theta \in -MaxTheta..MaxTheta
       /\ lastCall' = Call("onMouseMove", movementX, movementY, <<>>)
       /\ UNCHANGED <<isMouseDown, mouseEnabled, dom>>
       /\ UNCHANGED viewFrame

\* ViewController.onWheel(event)
OnWheel ==
    \E deltaY \in WheelOffsets :
       /\ camera' = ChangeDistance(mouseEnabled, camera, deltaY)
       /\ lastCall' = Call("onWheel", deltaY, 0, <<>>)
       /\ UNCHANGED <<isMouseDown, mouseEnabled, dom>>
       /\ UNCHANGED viewFrame

\* ViewController.onKeyPress(event): lastCall.a is 1 for the key "KeyC"
ViewOnKeyPress ==
    \E code \in {"KeyC", "KeyW"} :
       /\ camera' = IF code = "KeyC" THEN ResetCamera ELSE camera
       /\ lastCall' = Call("onKeyPress", IF code = "KeyC" THEN 1 ELSE 0, 0,
                           <<>>)
       /\ UNCHANGED <<isMouseDown, mouseEnabled, dom>>
       /\ UNCHANGED viewFrame

\* GameView.gameover(...)
ViewGameover ==
    \E values \in GameoverValues :
       /\ mouseEnabled' = FALSE
       /\ dom' = GameoverShown(dom, values)
       /\ lastCall' = Call("gameover", 0, 0, <<>>)
       /\ UNCHANGED <<isMouseDown, camera>>
       /\ UNCHANGED viewFrame

\* The callback GameView.gameover hands to setInterval:
\* this.controls.changeAngle(0.001, -0.001), one step here
IntervalElapsed ==
    /\ ~mouseEnabled
    /\ camera' = ControlsChangeAngle(camera, 1, -1)
    /\ camera'.theta \in -MaxTheta..MaxTheta
    /\ lastCall' = Call("interval", 0, 0, <<>>)
    /\ UNCHANGED <<isMouseDown, mouseEnabled, dom>>
    /\ UNCHANGED viewFrame

ViewNext ==
    \/ OnMouseDown
    \/ OnMouseUp
    \/ OnMouseMove
    \/ OnWheel
    \/ ViewOnKeyPress
    \/ ViewGameover
    \/ IntervalElapsed

ViewSpec == ViewInit /\ [][ViewNext]_vars

\* ------------------------------------------------------------------------
\* Claims about the camera (specification ViewSpec).
\* ------------------------------------------------------------------------

\* C39: the button counts as held from an onMouseDown to the next onMouseUp,
\* and a mouse movement while it is not held leaves the camera as it is.
\* Once the view was told of the game-over, a mouse movement and a wheel
\* movement leave the camera as it is, held button or not, while the key C
\* still puts the camera back to its first angle and distance. Before that,
\* a movement with the button held turns the camera by the movement.
C39_CameraFollowsHeldMouseUntilGameover ==
    [][/\ isMouseDown' = CASE lastCall'.op = "onMouseDown" -> TRUE
                           [] lastCall'.op = "onMouseUp" -> FALSE
                           [] OTHER -> isMouseDown
       /\ (lastCall'.op = "onMouseMove" /\ ~isMouseDown) => camera' = camera
       /\ (lastCall'.op \in {"onMouseMove", "onWheel"} /\ ~mouseEnabled) =>
             camera' = camera
       /\ (lastCall'.op = "onKeyPress" /\ lastCall'.a = 1) =>
             camera' = ResetCamera
       /\ (lastCall'.op = "onMouseMove" /\ isMouseDown /\ mouseEnabled) =>
             camera'.theta = camera.theta + lastCall'.a
      ]_vars

\* C39 witness: the camera was zoomed and turned before the game-over; now
\* the view has been told of the game-over, the button is held, and a mouse
\* movement has just been ignored.
C39_Witness ==
    /\ lastCall.op = "onMouseMove"
    /\ lastCall.a # 0
    /\ isMouseDown
    /\ ~mouseEnabled
    /\ dom.menuVisible
    /\ camera.distance # ResetCamera.distance

====
